---- MODULE Spec2Model ----
(***************************************************************************)
(* ExpertNet front end (src/frontend/script.js): the team shown after an   *)
(* analysis and its reassignment by the tag-wise swap icons and the card   *)
(* dropdowns.  The state is the page's: the closure of renderResults       *)
(* (apiData, profMap, profOrder), the rendered cards and tag-wise table,   *)
(* the listeners attached to them and the pending setTimeout callbacks.    *)
(*                                                                         *)
(* Names and tags are sequences of one-character strings, so that what the *)
(* templates write into HTML attributes and what the handlers read back    *)
(* can be computed rather than assumed equal.                              *)
(***************************************************************************)
EXTENDS Integers, Sequences, FiniteSets, TLC

(***************************************************************************)
(* Characters with a meaning in the generated HTML and JSON.               *)
(***************************************************************************)
APOS == "'"
DQUOTE == "\""
BACKSLASH == "\\"
BLANK == " "

(***************************************************************************)
(* Array helpers with JavaScript's meaning.                                *)
(***************************************************************************)
Range(s) == {s[i] : i \in 1..Len(s)}

\* Array.prototype.includes
Includes(s, x) == \E i \in 1..Len(s) : s[i] = x

\* Array.prototype.indexOf, 0-based, -1 when absent
IndexOf(s, x) ==
    IF Includes(s, x)
    THEN (CHOOSE i \in 1..Len(s) : s[i] = x /\ \A j \in 1..(i - 1) : s[j] # x) - 1
    ELSE -1

\* Array.prototype.filter for the predicate "element is not x"
Without(s, x) == SelectSeq(s, LAMBDA e : e # x)

\* Array.prototype.filter for the predicate "element is not in t"
WithoutAll(s, t) == SelectSeq(s, LAMBDA e : ~Includes(t, e))

\* arr.filter((n, i, arr) => arr.indexOf(n) === i)
RECURSIVE DedupeFrom(_, _, _)
DedupeFrom(s, i, acc) ==
    IF i > Len(s) THEN acc
    ELSE DedupeFrom(s, i + 1, IF IndexOf(s, s[i]) = i - 1 THEN Append(acc, s[i]) ELSE acc)
Dedupe(s) == DedupeFrom(s, 1, <<>>)

\* Array.from(new Set([...a, ...b])): first occurrences, in order
SetUnionSeq(a, b) == Dedupe(a \o b)

\* a variant of SpliceInsert that pushes the element at the end, whatever
\* the index
SpliceInsertPush(s, idx, x) == Append(s, x)

\* arr.splice(idx, 0, x) for 0 <= idx; an index past the end appends
SpliceInsert(s, idx, x) ==
    LET k == IF idx > Len(s) THEN Len(s) ELSE idx
    IN  SubSeq(s, 1, k) \o <<x>> \o SubSeq(s, k + 1, Len(s))

\* String.prototype.trim() === '' for the characters of the model
IsBlank(str) == \A i \in 1..Len(str) : str[i] = BLANK

(***************************************************************************)
(* What the HTML parser reads back from an attribute written between the   *)
(* quote character q: the text up to the first q.                          *)
(***************************************************************************)
AttrRead(text, q) ==
    IF Includes(text, q) THEN SubSeq(text, 1, IndexOf(text, q)) ELSE text

(***************************************************************************)
(* JSON.stringify of an array of strings, as characters.                   *)
(***************************************************************************)
RECURSIVE JsonEscape(_, _)
JsonEscape(str, i) ==
    IF i > Len(str) THEN <<>>
    ELSE (IF str[i] \in {DQUOTE, BACKSLASH} THEN <<BACKSLASH, str[i]>> ELSE <<str[i]>>)
         \o JsonEscape(str, i + 1)

RECURSIVE JsonItems(_, _)
JsonItems(arr, i) ==
    IF i > Len(arr) THEN <<>>
    ELSE (IF i > 1 THEN <<",">> ELSE <<>>)
         \o <<DQUOTE>> \o JsonEscape(arr[i], 1) \o <<DQUOTE>>
         \o JsonItems(arr, i + 1)

JsonStringify(arr) == <<"[">> \o JsonItems(arr, 1) \o <<"]">>

(***************************************************************************)
(* JSON.parse of a text expected to hold an array of strings.  ok = FALSE  *)
(* stands for the SyntaxError JSON.parse throws.                           *)
(***************************************************************************)
JsonFail == [ok |-> FALSE, val |-> <<>>, next |-> 0]

RECURSIVE JsonString(_, _, _)
JsonString(text, i, acc) ==
    IF i > Len(text) THEN JsonFail
    ELSE IF text[i] = DQUOTE THEN [ok |-> TRUE, val |-> acc, next |-> i + 1]
    ELSE IF text[i] = BACKSLASH
         THEN IF i + 1 > Len(text) \/ text[i + 1] \notin {DQUOTE, BACKSLASH}
              THEN JsonFail
              ELSE JsonString(text, i + 2, Append(acc, text[i + 1]))
    ELSE JsonString(text, i + 1, Append(acc, text[i]))

RECURSIVE JsonElems(_, _, _)
JsonElems(text, i, acc) ==
    IF i > Len(text) \/ text[i] # DQUOTE THEN JsonFail
    ELSE LET s == JsonString(text, i + 1, <<>>)
         IN  IF ~s.ok \/ s.next > Len(text) THEN JsonFail
             ELSE IF text[s.next] = ","
                  THEN JsonElems(text, s.next + 1, Append(acc, s.val))
             ELSE IF text[s.next] = "]" /\ s.next = Len(text)
                  THEN [ok |-> TRUE, val |-> Append(acc, s.val), next |-> s.next + 1]
             ELSE JsonFail

JsonParse(text) ==
    IF Len(text) < 2 \/ text[1] # "[" THEN JsonFail
    ELSE IF text[2] = "]"
         THEN IF Len(text) = 2 THEN [ok |-> TRUE, val |-> <<>>, next |-> 3] ELSE JsonFail
    ELSE JsonElems(text, 2, <<>>)

(***************************************************************************)
(* The analysis response, as far as the team code reads it:                *)
(*   team              sequence of [name, tags, score]                     *)
(*   all_profs_by_tag  function from the tags it lists to the sequence of  *)
(*                     names of the professors having the tag              *)
(*   not_found_tags    sequence of tags                                    *)
(* The display fields (department, base_url, position, ...) are copied by  *)
(* the code and never read by it in a condition; they are left out.        *)
(*                                                                         *)
(* profMap is a sequence of [name, tags] in the order the keys were added  *)
(* (the order Object.entries gives); profOrder is a sequence of names.     *)
(***************************************************************************)

\* (apiData.all_profs_by_tag && apiData.all_profs_by_tag[tag]) || []
AllProfs(apiData, tag) ==
    IF tag \in DOMAIN apiData.all_profs_by_tag
    THEN apiData.all_profs_by_tag[tag]
    ELSE <<>>

\* profMap[name] is defined
HasProf(profMap, name) == \E i \in 1..Len(profMap) : profMap[i].name = name

\* profMap[name].tags, for a name that is a key
TagsOf(profMap, name) ==
    profMap[CHOOSE i \in 1..Len(profMap) : profMap[i].name = name].tags

\* a variant of SetTags for members that share one tags array: the
\* assignment shows in every member
SetTagsShared(profMap, name, tags) ==
    [i \in 1..Len(profMap) |-> [name |-> profMap[i].name, tags |-> tags]]

\* profMap[name].tags = tags, for a name that is a key
RECURSIVE SetTagsFrom(_, _, _, _)
SetTagsFrom(profMap, i, name, tags) ==
    IF i > Len(profMap) THEN <<>>
    ELSE <<IF profMap[i].name = name THEN [name |-> name, tags |-> tags] ELSE profMap[i]>>
         \o SetTagsFrom(profMap, i + 1, name, tags)
SetTags(profMap, name, tags) == SetTagsFrom(profMap, 1, name, tags)

\* profMap[name] = { name, ..., tags: [] }, for a name that is no key
AddProf(profMap, name) == Append(profMap, [name |-> name, tags |-> <<>>])

\* a variant of DeleteProf that leaves the key in place
DeleteProfKept(profMap, name) == profMap

\* delete profMap[name]
DeleteProf(profMap, name) == SelectSeq(profMap, LAMBDA e : e.name # name)

(***************************************************************************)
(* renderResults, lines 233-242: profMap and profOrder from apiData.team.  *)
(***************************************************************************)
RECURSIVE BuildTeamFrom(_, _, _, _)
BuildTeamFrom(team, i, profMap, profOrder) ==
    IF i > Len(team) THEN [profMap |-> profMap, profOrder |-> profOrder]
    ELSE IF ~HasProf(profMap, team[i].name)
         THEN BuildTeamFrom(team, i + 1,
                  Append(profMap, [name |-> team[i].name, tags |-> team[i].tags]),
                  Append(profOrder, team[i].name))
         ELSE BuildTeamFrom(team, i + 1,
                  SetTags(profMap, team[i].name,
                          TagsOf(profMap, team[i].name) \o team[i].tags),
                  profOrder)

\* a variant of BuildTeam that keeps, of the entries naming one expert, the
\* first alone
BuildTeamFirstEntry(team) ==
    BuildTeamFrom(SelectSeq([i \in 1..Len(team) |->
                                [name |-> team[i].name, tags |-> team[i].tags, i |-> i]],
                            LAMBDA x : \A j \in 1..(x.i - 1) : team[j].name # x.name),
                  1, <<>>, <<>>)

BuildTeam(team) == BuildTeamFrom(team, 1, <<>>, <<>>)

(***************************************************************************)
(* getProfsForTags(tags) read at one name: the count of that name, 0 when  *)
(* the name has no entry.                                                  *)
(***************************************************************************)
RECURSIVE GetProfsForTagsCountFrom(_, _, _, _)
GetProfsForTagsCountFrom(apiData, tags, i, name) ==
    IF i > Len(tags) THEN 0
    ELSE Cardinality({j \in 1..Len(AllProfs(apiData, tags[i])) :
                         AllProfs(apiData, tags[i])[j] = name})
         + GetProfsForTagsCountFrom(apiData, tags, i + 1, name)
GetProfsForTagsCount(apiData, tags, name) ==
    GetProfsForTagsCountFrom(apiData, tags, 1, name)

(***************************************************************************)
(* The click handler of a tag-wise swap icon, lines 336-368, up to the     *)
(* render.  outcome is "return" for the early return, "done" otherwise.    *)
(***************************************************************************)
\* lines 342-349: the first member, in key order, whose tags include the tag
HolderOf(profMap, tag) ==
    IF \E i \in 1..Len(profMap) : Includes(profMap[i].tags, tag)
    THEN profMap[CHOOSE i \in 1..Len(profMap) :
                    /\ Includes(profMap[i].tags, tag)
                    /\ \A j \in 1..(i - 1) : ~Includes(profMap[j].tags, tag)].name
    ELSE <<"null">>

HasHolder(profMap, tag) == \E i \in 1..Len(profMap) : Includes(profMap[i].tags, tag)

\* a variant of DropEmptySource that leaves the emptied source in place
DropEmptySourceKept(profMap, profOrder, oldProfName) ==
    [profMap |-> profMap, profOrder |-> Dedupe(profOrder)]

\* a variant of DropEmptySource that deletes the emptied source from the map
\* and leaves it in the order
DropEmptySourceOrderKept(profMap, profOrder, oldProfName) ==
    IF TagsOf(profMap, oldProfName) = <<>>
    THEN [profMap |-> DeleteProf(profMap, oldProfName), profOrder |-> Dedupe(profOrder)]
    ELSE [profMap |-> profMap, profOrder |-> Dedupe(profOrder)]

\* lines 361-365: drop the emptied source, de-duplicate the order
DropEmptySource(profMap, profOrder, oldProfName) ==
    IF TagsOf(profMap, oldProfName) = <<>>
    THEN [profMap |-> DeleteProf(profMap, oldProfName),
          profOrder |-> Dedupe(Without(profOrder, oldProfName))]
    ELSE [profMap |-> profMap, profOrder |-> Dedupe(profOrder)]

\* a variant of EnsureDestination that splices the destination into the order
\* whether or not it is a member already
EnsureDestinationSpliced(profMap, profOrder, oldProfName, newProfName) ==
    [profMap |-> IF ~HasProf(profMap, newProfName)
                 THEN AddProf(profMap, newProfName) ELSE profMap,
     profOrder |-> SpliceInsert(profOrder, IndexOf(profOrder, oldProfName) + 1,
                                newProfName)]

\* a variant of EnsureDestination that pushes a destination new to the team
\* at the end of the order
EnsureDestinationPushed(profMap, profOrder, oldProfName, newProfName) ==
    IF ~HasProf(profMap, newProfName)
    THEN [profMap |-> AddProf(profMap, newProfName),
          profOrder |-> Append(profOrder, newProfName)]
    ELSE [profMap |-> profMap, profOrder |-> profOrder]

\* lines 352-359 and 403-427: a destination new to the team gets an entry
\* and a place right after the source
EnsureDestination(profMap, profOrder, oldProfName, newProfName) ==
    IF ~HasProf(profMap, newProfName)
    THEN [profMap |-> AddProf(profMap, newProfName),
          profOrder |-> SpliceInsert(profOrder, IndexOf(profOrder, oldProfName) + 1,
                                     newProfName)]
    ELSE [profMap |-> profMap, profOrder |-> profOrder]

SwapIconHandler(cl, profName, tag) ==
    IF ~HasHolder(cl.profMap, tag) \/ profName = HolderOf(cl.profMap, tag)
    THEN [profMap |-> cl.profMap, profOrder |-> cl.profOrder, outcome |-> "return"]
    ELSE LET oldProfName == HolderOf(cl.profMap, tag)
             removed == SetTags(cl.profMap, oldProfName,
                                Without(TagsOf(cl.profMap, oldProfName), tag))
             dest == EnsureDestination(removed, cl.profOrder, oldProfName, profName)
             added == SetTags(dest.profMap, profName,
                              Append(TagsOf(dest.profMap, profName), tag))
             final == DropEmptySource(added, dest.profOrder, oldProfName)
         IN  [profMap |-> final.profMap, profOrder |-> final.profOrder,
              outcome |-> "done"]

(***************************************************************************)
(* The change listener of a card dropdown, lines 377-441, up to the        *)
(* render.  dataCurrentProf and dataTags are the attribute values of the   *)
(* select, value is the value of its selected option.  outcome "throw" is  *)
(* an exception leaving the listener (JSON.parse, or reading .tags of an   *)
(* undefined profMap entry); nothing has been assigned at either place.    *)
(***************************************************************************)
\* a variant of TagsToMove that takes every tag of the card
TagsToMoveAll(apiData, tagsOfOldProf, newProfName) == tagsOfOldProf

\* lines 385-397
TagsToMove(apiData, tagsOfOldProf, newProfName) ==
    LET found == GetProfsForTagsCount(apiData, tagsOfOldProf, newProfName)
        newProfCommonCount == IF found = 0 THEN 1 ELSE found
    IN  IF newProfCommonCount >= 1 /\ Len(tagsOfOldProf) > 1
        THEN SelectSeq(tagsOfOldProf,
                 LAMBDA tg : /\ ~(tg = <<>> \/ IsBlank(tg))
                             /\ Includes(AllProfs(apiData, tg), newProfName))
        ELSE tagsOfOldProf

\* a variant of FilteredTagsToMove with the test turned round
FilteredTagsToMoveBlank(tagsToMove) ==
    SelectSeq(tagsToMove, LAMBDA tg : tg = <<>> \/ IsBlank(tg))

\* line 430
FilteredTagsToMove(tagsToMove) ==
    SelectSeq(tagsToMove, LAMBDA tg : ~(tg = <<>> \/ IsBlank(tg)))

DropdownHandler(cl, dataCurrentProf, dataTags, value) ==
    LET unchanged(o) == [profMap |-> cl.profMap, profOrder |-> cl.profOrder, outcome |-> o]
        parsed == JsonParse(dataTags)
    IN  IF ~parsed.ok THEN unchanged("throw")
        ELSE IF value = <<>> THEN unchanged("return")
        ELSE IF ~HasProf(cl.profMap, dataCurrentProf) THEN unchanged("throw")
        ELSE
        LET oldProfName == dataCurrentProf
            newProfName == value
            tagsToMove == TagsToMove(cl.apiData, parsed.val, newProfName)
            removed == SetTags(cl.profMap, oldProfName,
                               WithoutAll(TagsOf(cl.profMap, oldProfName), tagsToMove))
            dest == EnsureDestination(removed, cl.profOrder, oldProfName, newProfName)
            added == SetTags(dest.profMap, newProfName,
                             SetUnionSeq(TagsOf(dest.profMap, newProfName),
                                         FilteredTagsToMove(tagsToMove)))
            final == DropEmptySource(added, dest.profOrder, oldProfName)
        IN  [profMap |-> final.profMap, profOrder |-> final.profOrder,
             outcome |-> "done"]

(***************************************************************************)
(* The back end answering /api/analyze is not part of the sources; its     *)
(* team is modelled from the specification's Team Assembler: tags without  *)
(* an expert are not found, the others are assigned one at a time to the   *)
(* expert covering most unassigned tags, ties going to the higher semantic *)
(* score and then to the lexicographically smaller identifier.             *)
(***************************************************************************)
Alphabet == <<BLANK, DQUOTE, APOS, "a", "b", "c", "d", "x", "y", "z">>

RECURSIVE LexLessFrom(_, _, _)
LexLessFrom(a, b, i) ==
    IF i > Len(b) THEN FALSE
    ELSE IF i > Len(a) THEN TRUE
    ELSE IF a[i] = b[i] THEN LexLessFrom(a, b, i + 1)
    ELSE IndexOf(Alphabet, a[i]) < IndexOf(Alphabet, b[i])
LexLess(a, b) == LexLessFrom(a, b, 1)

\* the experts of the roster, in roster order, that declare the tag
RECURSIVE ExpertsWithFrom(_, _, _, _)
ExpertsWithFrom(experts, roster, tag, i) ==
    IF i > Len(experts) THEN <<>>
    ELSE (IF tag \in roster[experts[i]] THEN <<experts[i]>> ELSE <<>>)
         \o ExpertsWithFrom(experts, roster, tag, i + 1)
ExpertsWith(experts, roster, tag) == ExpertsWithFrom(experts, roster, tag, 1)

\* a variant of NotFoundTags that reports nothing
NotFoundTagsNone(required, experts, roster) == <<>>

NotFoundTags(required, experts, roster) ==
    SelectSeq(required, LAMBDA t : ExpertsWith(experts, roster, t) = <<>>)

\* the number of tags of `open` the expert declares
Coverage(roster, open, e) == Cardinality({i \in 1..Len(open) : open[i] \in roster[e]})

\* a variant of Preferred that takes, among experts covering as many tags,
\* the lower semantic score
PreferredLowerScore(roster, sem, open, e, f) ==
    \/ Coverage(roster, open, e) > Coverage(roster, open, f)
    \/ /\ Coverage(roster, open, e) = Coverage(roster, open, f)
       /\ \/ sem[e] < sem[f]
          \/ sem[e] = sem[f] /\ LexLess(e, f)

\* e is preferred to f
Preferred(roster, sem, open, e, f) ==
    \/ Coverage(roster, open, e) > Coverage(roster, open, f)
    \/ /\ Coverage(roster, open, e) = Coverage(roster, open, f)
       /\ \/ sem[e] > sem[f]
          \/ sem[e] = sem[f] /\ LexLess(e, f)

\* the assignment, a sequence of [tag, name] in the order it is made
RECURSIVE AssignFrom(_, _, _, _, _)
AssignFrom(experts, roster, sem, open, acc) ==
    IF open = <<>> THEN acc
    ELSE LET best == CHOOSE e \in Range(experts) :
                        /\ Coverage(roster, open, e) > 0
                        /\ \A f \in Range(experts) \ {e} : Preferred(roster, sem, open, e, f)
             tag == open[CHOOSE i \in 1..Len(open) :
                            /\ open[i] \in roster[best]
                            /\ \A j \in 1..(i - 1) : open[j] \notin roster[best]]
         IN  AssignFrom(experts, roster, sem, Without(open, tag),
                        Append(acc, [tag |-> tag, name |-> best]))

\* a variant of Assign that gives up the whole team when a tag has no
\* expert
AssignAllOrNothing(required, experts, roster, sem) ==
    IF \E i \in 1..Len(required) : ExpertsWith(experts, roster, required[i]) = <<>>
    THEN <<>>
    ELSE AssignFrom(experts, roster, sem, required, <<>>)

Assign(required, experts, roster, sem) ==
    AssignFrom(experts, roster, sem,
               SelectSeq(required, LAMBDA t : ExpertsWith(experts, roster, t) # <<>>),
               <<>>)

\* the team of the response: one entry per assigned tag (perTag), or one
\* entry per expert holding the tags assigned to it
RECURSIVE TeamEntries(_, _, _, _)
TeamEntries(assigned, sem, perTag, i) ==
    IF i > Len(assigned) THEN <<>>
    ELSE LET name == assigned[i].name
             mine == SelectSeq(assigned, LAMBDA a : a.name = name)
             first == \A j \in 1..(i - 1) : assigned[j].name # name
             tagsOfMine[k \in 0..Len(mine)] ==
                 IF k = 0 THEN <<>> ELSE Append(tagsOfMine[k - 1], mine[k].tag)
         IN  (IF perTag
              THEN <<[name |-> name, tags |-> <<assigned[i].tag>>, score |-> sem[name]]>>
              ELSE IF first
                   THEN <<[name |-> name, tags |-> tagsOfMine[Len(mine)], score |-> sem[name]]>>
                   ELSE <<>>)
             \o TeamEntries(assigned, sem, perTag, i + 1)

AnalyzeResponse(required, experts, roster, sem, perTag) ==
    [team |-> TeamEntries(Assign(required, experts, roster, sem), sem, perTag, 1),
     all_profs_by_tag |-> [t \in Range(required) |-> ExpertsWith(experts, roster, t)],
     not_found_tags |-> NotFoundTags(required, experts, roster)]

(***************************************************************************)
(* The individual list of a response, from the specification's Rank        *)
(* Aggregator: the whole roster, by descending rank, experts of equal rank *)
(* by ascending identifier.  rank gives each expert its rank score.        *)
(***************************************************************************)
RankedBefore(rank, e, f) == rank[e] > rank[f] \/ (rank[e] = rank[f] /\ LexLess(e, f))

RECURSIVE InsertRanked(_, _, _)
InsertRanked(rank, sorted, e) ==
    IF sorted = <<>> THEN <<e>>
    ELSE IF RankedBefore(rank, e, sorted[1])
         THEN <<e>> \o sorted
         ELSE <<sorted[1]>> \o InsertRanked(rank, Tail(sorted), e)

RECURSIVE RankedFrom(_, _, _, _)
RankedFrom(experts, rank, i, acc) ==
    IF i > Len(experts) THEN acc
    ELSE RankedFrom(experts, rank, i + 1, InsertRanked(rank, acc, experts[i]))

Individual(experts, rank) ==
    LET ranked == RankedFrom(experts, rank, 1, <<>>)
    IN  [i \in 1..Len(ranked) |-> [name |-> ranked[i], rank_score |-> rank[ranked[i]]]]

(***************************************************************************)
(* sortResults, lines 181-187.  Array.prototype.sort is stable.            *)
(***************************************************************************)
\* the characters of the names in the order of the collation localeCompare
\* follows: the blank, then the punctuation with the apostrophe before the
\* quotation mark, then the letters
LocaleOrder == <<BLANK, APOS, DQUOTE, "a", "b", "c", "d", "x", "y", "z">>

\* a.localeCompare(b), line 183: negative, zero or positive
RECURSIVE LocaleCompareFrom(_, _, _)
LocaleCompareFrom(a, b, i) ==
    IF i > Len(a) /\ i > Len(b) THEN 0
    ELSE IF i > Len(a) THEN -1
    ELSE IF i > Len(b) THEN 1
    ELSE IF a[i] = b[i] THEN LocaleCompareFrom(a, b, i + 1)
    ELSE IF IndexOf(LocaleOrder, a[i]) < IndexOf(LocaleOrder, b[i]) THEN -1
    ELSE 1
LocaleCompare(a, b) == LocaleCompareFrom(a, b, 1)

\* a goes before b under the criteria's comparator
SortsBefore(criteria, a, b) ==
    IF criteria = "alphabetical" THEN LocaleCompare(a.name, b.name) < 0
    ELSE IF criteria = "relevance" THEN a.score > b.score
    ELSE FALSE

RECURSIVE InsertStable(_, _, _)
InsertStable(criteria, sorted, e) ==
    IF sorted = <<>> THEN <<e>>
    ELSE IF SortsBefore(criteria, e, sorted[Len(sorted)])
         THEN Append(InsertStable(criteria, SubSeq(sorted, 1, Len(sorted) - 1), e),
                     sorted[Len(sorted)])
         ELSE Append(sorted, e)

RECURSIVE SortResultsFrom(_, _, _, _)
SortResultsFrom(criteria, results, i, acc) ==
    IF i > Len(results) THEN acc
    ELSE SortResultsFrom(criteria, results, i + 1, InsertStable(criteria, acc, results[i]))
SortResults(results, criteria) == SortResultsFrom(criteria, results, 1, <<>>)

(***************************************************************************)
(* renderTeamCards, lines 257-308: the cards written into the team         *)
(* section, with the attributes of each card's select as the parser reads  *)
(* them back.  options is the set of the option values other than "";      *)
(* value is the value the select shows, "" (the first option) when the     *)
(* card is written.                                                        *)
(***************************************************************************)
\* lines 272-283: the names offered for a member
ProfsForDropdown(apiData, name, tags) ==
    {p \in UNION {Range(AllProfs(apiData, tags[i])) : i \in 1..Len(tags)} : p # name}

TeamCard(cl, profName) ==
    LET tags == TagsOf(cl.profMap, profName)
    IN  [prof |-> profName,
         tags |-> tags,
         hasSelect |-> Len(tags) >= 1,
         dataTag |-> IF Len(tags) = 1 THEN AttrRead(tags[1], DQUOTE) ELSE <<>>,
         dataCurrentProf |-> AttrRead(profName, DQUOTE),
         dataTags |-> AttrRead(JsonStringify(tags), APOS),
         options |-> {AttrRead(p, APOS) : p \in ProfsForDropdown(cl.apiData, profName, tags)},
         value |-> <<>>]

RECURSIVE TeamCardsFrom(_, _)
TeamCardsFrom(cl, i) ==
    IF i > Len(cl.profOrder) THEN <<>>
    ELSE (IF HasProf(cl.profMap, cl.profOrder[i])
          THEN <<TeamCard(cl, cl.profOrder[i])>> ELSE <<>>)
         \o TeamCardsFrom(cl, i + 1)

\* the team section after renderTeamCards: fresh selects carry no listener
RenderTeamCards(cl) == [kind |-> "cards", cards |-> TeamCardsFrom(cl, 1), listener |-> 0]

\* line 310: the tag-wise table is rebuilt only for a non-empty index
HasTagTable(apiData) == DOMAIN apiData.all_profs_by_tag # {}

\* lines 312-322: one swap icon per professor listed under a tag
TagTableIcons(apiData) ==
    UNION {{[dataTag |-> AttrRead(t, DQUOTE), dataProfName |-> AttrRead(p, DQUOTE)] :
               p \in Range(AllProfs(apiData, t))} :
           t \in DOMAIN apiData.all_profs_by_tag}

(***************************************************************************)
(* renderIndividualResults, lines 460-516: what is written into the        *)
(* individual section.  A card shows its number, the rank score and the    *)
(* name.                                                                   *)
(***************************************************************************)
\* a variant of RenderIndividualResults that writes the index of forEach as
\* the number
RenderIndividualResultsByIndex(professors) ==
    IF Len(professors) = 0
    THEN [kind |-> "none", rows |-> <<>>]
    ELSE [kind |-> "list",
          rows |-> [index \in 1..Len(professors) |->
                       [number |-> index - 1,
                        name |-> professors[index].name,
                        rank_score |-> professors[index].rank_score]]]

\* forEach counts index from 0: the element at place i of the sequence has
\* index i - 1 and is numbered index + 1
RenderIndividualResults(professors) ==
    IF Len(professors) = 0
    THEN [kind |-> "none", rows |-> <<>>]
    ELSE [kind |-> "list",
          rows |-> [i \in 1..Len(professors) |->
                       [number |-> (i - 1) + 1,
                        name |-> professors[i].name,
                        rank_score |-> professors[i].rank_score]]]

(***************************************************************************)
(* Bounds of the model.                                                    *)
(***************************************************************************)
\* semantic scores are drawn from 1..MaxScore
MaxScore == 2
\* at most MaxTimers setTimeout callbacks are pending at a time
MaxTimers == 3

\* a roster holds at most MaxDeclared (expert, tag) declarations, the rosters
\* defined by name apart
MaxDeclared == 2
\* a roster given to the team assembly alone holds at most MaxAssembled
\* declarations
MaxAssembled == 3
\* a roster of the store with a quoted identifier holds at most
\* MaxQuotedDeclared declarations
MaxQuotedDeclared == 2
\* an embedding has Dim components
Dim == 2
\* the embedding of an identifier is computed at most MaxPopulations times
MaxPopulations == 2
\* a team list given to the construction has at most MaxEntries entries
MaxEntries == 3

\* the experts of the roster store and the tags a query requires; the third
\* identifier holds an apostrophe, and the store of an identifier holding a
\* quotation mark is QuotedExperts below
Experts == << <<"a">>, <<"b">>, <<"c", APOS, "d">> >>
RequiredTags == << <<"x">>, <<"y">>, <<"z">> >>

Declarations(roster) ==
    {et \in Range(Experts) \X Range(RequiredTags) : et[2] \in roster[et[1]]}

\* the roster in which the first expert declares every tag and the second
\* every tag but the last
WideRoster ==
    [e \in Range(Experts) |->
        IF e = Experts[1] THEN Range(RequiredTags)
        ELSE IF e = Experts[2]
             THEN Range(RequiredTags) \ {RequiredTags[Len(RequiredTags)]}
             ELSE {}]

\* the roster in which the first expert declares the last two tags, the
\* second the first of them and the third the other: no expert for the
\* first tag, and a destination that declares a tag it is not given
SharedRoster ==
    [e \in Range(Experts) |->
        IF e = Experts[1] THEN {RequiredTags[2], RequiredTags[3]}
        ELSE IF e = Experts[2] THEN {RequiredTags[2]}
        ELSE {RequiredTags[3]}]

\* the roster in which the first expert declares the first tag, the second
\* the last and the third the last two: a team of three members
SpreadRoster ==
    [e \in Range(Experts) |->
        IF e = Experts[1] THEN {RequiredTags[1]}
        ELSE IF e = Experts[2] THEN {RequiredTags[3]}
        ELSE {RequiredTags[2], RequiredTags[3]}]

RostersUpTo(n) ==
    {roster \in [Range(Experts) -> SUBSET Range(RequiredTags)] :
        Cardinality(Declarations(roster)) <= n}

Rosters == RostersUpTo(MaxDeclared)

NamedRosters == {WideRoster, SharedRoster, SpreadRoster}

\* the responses to one query: every score of the experts over the bounded
\* rosters, equal scores over the rosters defined by name
Responses ==
    {AnalyzeResponse(RequiredTags, Experts, roster, sem, perTag) :
        roster \in Rosters,
        sem \in [Range(Experts) -> 1..MaxScore],
        perTag \in BOOLEAN}
      \cup {AnalyzeResponse(RequiredTags, Experts, roster,
                             [e \in Range(Experts) |-> 1], perTag) :
               roster \in NamedRosters, perTag \in BOOLEAN}

\* a second roster store, one of whose identifiers holds a quotation mark:
\* the attributes data-current-prof and data-prof-name are written between
\* quotation marks (lines 287, 289 and 314), as the option values are
\* written between apostrophes
QuotedExperts == << <<"a">>, <<"d", DQUOTE, "c">> >>

\* the roster in which the expert with the quotation mark declares the first
\* two tags and the other expert the second
QuotedOverlapRoster ==
    [e \in Range(QuotedExperts) |->
        IF e = QuotedExperts[1] THEN {RequiredTags[2]}
        ELSE {RequiredTags[1], RequiredTags[2]}]

QuotedRosters ==
    {roster \in [Range(QuotedExperts) -> SUBSET Range(RequiredTags)] :
        Cardinality({et \in Range(QuotedExperts) \X Range(RequiredTags) :
                        et[2] \in roster[et[1]]}) <= MaxQuotedDeclared}

QuotedResponses ==
    {AnalyzeResponse(RequiredTags, QuotedExperts, roster, sem, perTag) :
        roster \in QuotedRosters,
        sem \in [Range(QuotedExperts) -> 1..MaxScore],
        perTag \in BOOLEAN}

\* the response of the store for QuotedOverlapRoster, the experts scoring
\* alike
QuotedOverlapResponse ==
    AnalyzeResponse(RequiredTags, QuotedExperts, QuotedOverlapRoster,
                    [e \in Range(QuotedExperts) |-> 1], FALSE)

(***************************************************************************)
(* The page.                                                               *)
(*   plan         the responses the back end gives to the requests, by     *)
(*                request number; a delivered response is replaced by      *)
(*                Delivered                                                *)
(*   issued       the number of requests sent                              *)
(*   inflight     the requests whose response has not arrived              *)
(*   currentApiData  the response stored for the tabs: the number of its   *)
(*                request, 0 for null, and its individual list             *)
(*   closures     one [apiData, profMap, profOrder, assigned0] per         *)
(*                renderResults call that built a team; apiData holds what *)
(*                the closure reads of it after the team is built;         *)
(*                assigned0 records the tags assigned in the team as built *)
(*   teamSection  the content of #team-results; listener is the closure    *)
(*                whose _dropdownListener the selects carry, 0 for none    *)
(*   tagTable     the content of #tagwise-table-container; owner is the    *)
(*                closure whose click handler the swap icons carry         *)
(*   timers       the pending setTimeout(..., 0) callbacks, oldest first   *)
(*   last         the latest listener run: its closure, its inputs, how it *)
(*                ended, and whether it repeats the inputs of a run that   *)
(*                came right before it and ran to its end                  *)
(*   currentMode  the tab selected, "team" or "individual"; the section of *)
(*                the other tab is hidden                                  *)
(*   individualSection  the content of #individual-results                 *)
(*   sortBy       the value of the select #sort-by                         *)
(*   currentResults  the team of the response stored last, as sorted;      *)
(*                empty at first and after Clear                           *)
(* and, on the side of the back end,                                       *)
(*   assembly     a call of the Team Assembler: its arguments and, once it *)
(*                has returned, its result                                 *)
(*   cache        the embedding cache: the entry of each expert            *)
(*                identifier, <<>> while it is not populated               *)
(*   cacheLock    the population lock of each identifier: the worker       *)
(*                holding it, 0 for none                                   *)
(*   workers      the matching requests running in parallel: where each is *)
(*                in its reference to an expert's embedding, the embedding *)
(*                it computed and the entry it got                         *)
(*   populations  how often the embedding of each identifier was computed  *)
(* and, for the construction of a team taken on its own,                   *)
(*   build        a call of the construction of renderResults: the team    *)
(*                list it is given and, once it has run, the profMap and   *)
(*                the profOrder it leaves                                  *)
(***************************************************************************)
VARIABLES plan, issued, inflight, currentApiData, closures, teamSection, tagTable,
          timers, last, currentMode, individualSection, sortBy, currentResults,
          assembly, cache, cacheLock, workers, populations, build

\* the tabs
viewVars == <<currentMode, individualSection>>

\* the filter and sort bar
filterVars == <<sortBy, currentResults>>

\* the embedding cache
cacheVars == <<cache, cacheLock, workers, populations>>

\* the back end, and the construction followed on its own
backendVars == <<assembly, cacheVars, build>>

\* the page
pageVars == <<plan, issued, inflight, currentApiData, closures, teamSection, tagTable,
              timers, last, viewVars, filterVars>>

vars == <<pageVars, backendVars>>

Placeholder == [kind |-> "placeholder", cards |-> <<>>, listener |-> 0]
Spinner == [kind |-> "spinner", cards |-> <<>>, listener |-> 0]
ErrorMessage == [kind |-> "error", cards |-> <<>>, listener |-> 0]
Delivered == [team |-> <<>>, all_profs_by_tag |-> <<>>, not_found_tags |-> <<>>]

\* data.individual of a response; responses of which only the team is
\* modelled have no such field
IndividualOf(data) ==
    IF "individual" \in DOMAIN data
    THEN [has |-> TRUE, list |-> data.individual]
    ELSE [has |-> FALSE, list |-> <<>>]

\* currentApiData = null
NoApiData == [request |-> 0, individual |-> [has |-> FALSE, list |-> <<>>]]

\* individualResultsSection.innerHTML = ''
NoIndividualSection == [kind |-> "empty", rows |-> <<>>]

\* no call of the Team Assembler
NoAssembly == [required |-> <<>>, roster |-> <<>>, sem |-> <<>>, done |-> FALSE,
               assigned |-> <<>>, team |-> <<>>, not_found_tags |-> <<>>]

NoRun == [op |-> "none", cl |-> 0, tag |-> <<>>, tags |-> <<>>, source |-> <<>>,
          dest |-> <<>>, outcome |-> "none", again |-> FALSE]

\* the tags assigned to the members of a profMap
AssignedTags(profMap) == UNION {Range(profMap[i].tags) : i \in 1..Len(profMap)}

\* script.js lines 20-22 and 519, and index.html lines 165 and 208
InitPage ==
    /\ issued = 0
    /\ inflight = {}
    /\ currentApiData = NoApiData
    /\ closures = <<>>
    /\ teamSection = Placeholder
    /\ tagTable = [hidden |-> TRUE, icons |-> {}, owner |-> 0]
    /\ timers = <<>>
    /\ last = NoRun
    /\ currentMode = "team"
    /\ individualSection = NoIndividualSection
    /\ sortBy = "relevance"
    /\ currentResults = <<>>

\* the parallel requests and the identifiers they refer to
Workers == {1, 2}
CacheKeys == {Experts[1], Experts[2]}

\* embed(text): a vector of Dim components, the same for the same expert
Embedding(key) == [i \in 1..Dim |-> key]

IdleWorker == [pc |-> "idle", key |-> <<>>, local |-> <<>>, got |-> <<>>, via |-> "none"]

\* an empty cache, no lock held, no request running
InitCache ==
    /\ cache = [key \in CacheKeys |-> <<>>]
    /\ cacheLock = [key \in CacheKeys |-> 0]
    /\ workers = [w \in Workers |-> IdleWorker]
    /\ populations = [key \in CacheKeys |-> 0]

\* no construction is followed on its own
NoBuild == [response |-> <<>>, criteria |-> "relevance", team |-> <<>>, done |-> FALSE,
            profMap |-> <<>>, profOrder |-> <<>>]

\* no call of the back end is followed
InitBackend == assembly = NoAssembly /\ InitCache /\ build = NoBuild

Init ==
    /\ plan \in {<<r>> : r \in Responses \cup QuotedResponses
                                 \cup {QuotedOverlapResponse}}
    /\ InitPage
    /\ InitBackend

\* the setTimeout calls of one render: the table first, then the listeners
RenderTimers(apiData, c) ==
    (IF HasTagTable(apiData) THEN <<[kind |-> "table", cl |-> c]>> ELSE <<>>)
    \o <<[kind |-> "attach", cl |-> c]>>

\* handleAnalyzeClick, lines 76-89, for a non-empty problem statement
HandleAnalyzeClick ==
    /\ issued < Len(plan)
    /\ issued' = issued + 1
    /\ inflight' = inflight \cup {issued + 1}
    /\ teamSection' = Spinner
    /\ UNCHANGED <<plan, currentApiData, closures, tagTable, timers, last>>
    /\ UNCHANGED <<viewVars, filterVars, backendVars>>

\* renderResults(data, 'problem'), lines 231-242: the closure of one call
NewClosure(data) ==
    LET built == BuildTeam(data.team)
    IN  [apiData |-> [all_profs_by_tag |-> data.all_profs_by_tag,
                      not_found_tags |-> data.not_found_tags],
         profMap |-> built.profMap,
         profOrder |-> built.profOrder,
         assigned0 |-> AssignedTags(built.profMap)]

\* analyzeProblem after the awaits, lines 133-159, for an ok response,
\* with renderResults(data, 'problem'), lines 231-242 and 446-447
AnalyzeProblemOk(k) ==
    /\ k \in inflight
    /\ Len(timers) + 2 <= MaxTimers
    /\ LET data == [plan[k] EXCEPT !.team = SortResults(plan[k].team, sortBy)]
           cl == NewClosure(data)
       IN  /\ closures' = Append(closures, cl)
           /\ teamSection' = RenderTeamCards(cl)
           /\ timers' = timers \o RenderTimers(cl.apiData, Len(closures) + 1)
           /\ currentResults' = data.team
    /\ plan' = [plan EXCEPT ![k] = Delivered]
    /\ inflight' = inflight \ {k}
    /\ currentApiData' = [request |-> k, individual |-> IndividualOf(plan[k])]
    /\ UNCHANGED <<issued, tagTable, last, sortBy>>
    /\ UNCHANGED <<viewVars, backendVars>>

\* a variant of AnalyzeProblemFail that stores the body before it looks at
\* response.ok
AnalyzeProblemFailStored(k) ==
    /\ k \in inflight
    /\ teamSection' = ErrorMessage
    /\ plan' = [plan EXCEPT ![k] = Delivered]
    /\ inflight' = inflight \ {k}
    /\ currentApiData' = [request |-> k, individual |-> IndividualOf(plan[k])]
    /\ UNCHANGED <<issued, closures, tagTable, timers, last>>
    /\ UNCHANGED <<viewVars, filterVars, backendVars>>

\* analyzeProblem for a rejected fetch, an unreadable body or a response
\* that is not ok, lines 135-137 and 161-164
AnalyzeProblemFail(k) ==
    /\ k \in inflight
    /\ teamSection' = ErrorMessage
    /\ plan' = [plan EXCEPT ![k] = Delivered]
    /\ inflight' = inflight \ {k}
    /\ UNCHANGED <<issued, currentApiData, closures, tagTable, timers, last>>
    /\ UNCHANGED <<viewVars, filterVars, backendVars>>

\* handleClearClick, lines 94-115
HandleClearClick ==
    /\ teamSection' = Placeholder
    /\ tagTable' = [tagTable EXCEPT !.hidden = TRUE]
    /\ currentApiData' = NoApiData
    /\ currentMode' = "team"
    /\ individualSection' = NoIndividualSection
    /\ currentResults' = <<>>
    /\ UNCHANGED <<plan, issued, inflight, closures, timers, last, sortBy>>
    /\ UNCHANGED backendVars

\* switchTab, lines 43-71, by a click on a tab; the tabs are shown from the
\* first rendered analysis until Clear (lines 153 and 105), which is while
\* currentApiData is not null
SwitchTab(mode) ==
    /\ currentApiData # NoApiData
    /\ currentMode' = mode
    /\ individualSection' =
          IF mode = "individual" /\ currentApiData.individual.has
          THEN RenderIndividualResults(currentApiData.individual.list)
          ELSE individualSection
    /\ UNCHANGED <<plan, issued, inflight, currentApiData, closures, teamSection,
                   tagTable, timers, last>>
    /\ UNCHANGED <<filterVars, backendVars>>

NoMatch == [kind |-> "nomatch", cards |-> <<>>, listener |-> 0]

\* renderResults as the change listener of the two selects, lines 33-34: it
\* is given the event, whose mode is undefined, and takes the branch of
\* lines 448-453
RenderResultsOnChange ==
    teamSection' = IF Len(currentResults) = 0 THEN NoMatch ELSE teamSection

\* the user picks the other option of #sort-by; the filter and sort bar is
\* shown from the first rendered analysis until Clear (lines 152 and 104),
\* which is while currentApiData is not null
SortByChange(value) ==
    /\ currentApiData # NoApiData
    /\ value # sortBy
    /\ sortBy' = value
    /\ RenderResultsOnChange
    /\ UNCHANGED <<plan, issued, inflight, currentApiData, closures, tagTable,
                   timers, last, currentResults>>
    /\ UNCHANGED <<viewVars, backendVars>>

\* a change event of #filter-department, whose value no line reads
FilterDepartmentChange ==
    /\ currentApiData # NoApiData
    /\ RenderResultsOnChange
    /\ UNCHANGED <<plan, issued, inflight, currentApiData, closures, tagTable,
                   timers, last>>
    /\ UNCHANGED <<viewVars, filterVars, backendVars>>

\* the setTimeout callback of renderTeamCards, lines 311-370
TagTableTimer ==
    /\ timers # <<>>
    /\ timers[1].kind = "table"
    /\ tagTable' = [hidden |-> FALSE,
                    icons |-> TagTableIcons(closures[timers[1].cl].apiData),
                    owner |-> timers[1].cl]
    /\ timers' = Tail(timers)
    /\ UNCHANGED <<plan, issued, inflight, currentApiData, closures, teamSection, last>>
    /\ UNCHANGED <<viewVars, filterVars, backendVars>>

\* attachDropdownListeners, lines 374-444
AttachDropdownListeners ==
    /\ timers # <<>>
    /\ timers[1].kind = "attach"
    /\ teamSection' = IF teamSection.kind = "cards"
                      THEN [teamSection EXCEPT !.listener = timers[1].cl]
                      ELSE teamSection
    /\ timers' = Tail(timers)
    /\ UNCHANGED <<plan, issued, inflight, currentApiData, closures, tagTable, last>>
    /\ UNCHANGED <<viewVars, filterVars, backendVars>>

\* a variant of Applied whose listener sorts in place the lists of the index
\* it reads, turning them round
AppliedIndexSorted(cl, r) ==
    [cl EXCEPT !.profMap = r.profMap, !.profOrder = r.profOrder,
               !.apiData.all_profs_by_tag =
                   [t \in DOMAIN @ |-> [i \in 1..Len(@[t]) |-> @[t][Len(@[t]) + 1 - i]]]]

\* the closure after a listener run with result r: the listeners assign
\* profMap[...] and profOrder, lines 350-365 and 400-436, and nothing else
Applied(cl, r) == [cl EXCEPT !.profMap = r.profMap, !.profOrder = r.profOrder]

\* the state after a listener of closure c ran with result r; shown is the
\* team section as the event leaves it when the listener renders nothing
AfterRun(c, r, run, shown) ==
    /\ last' = run
    /\ IF r.outcome = "done"
       THEN LET cl == Applied(closures[c], r)
            IN  /\ closures' = [closures EXCEPT ![c] = cl]
                /\ teamSection' = RenderTeamCards(cl)
                /\ timers' = timers \o RenderTimers(cl.apiData, c)
       ELSE /\ teamSection' = shown
            /\ UNCHANGED <<closures, timers>>
    /\ UNCHANGED <<plan, issued, inflight, currentApiData, tagTable>>
    /\ UNCHANGED <<viewVars, filterVars, backendVars>>

\* a click on a swap icon of the tag-wise table, lines 336-368
\* a run that renders sets two timers (lines 311 and 367); a click that
\* returns at line 350 sets none
SwapIconClick(icon) ==
    /\ ~tagTable.hidden
    /\ icon \in tagTable.icons
    /\ LET c == tagTable.owner
           r == SwapIconHandler(closures[c], icon.dataProfName, icon.dataTag)
       IN  /\ r.outcome = "done" => Len(timers) + 2 <= MaxTimers
           /\ AfterRun(c, r,
                   [op |-> "icon", cl |-> c, tag |-> icon.dataTag, tags |-> <<>>,
                    source |-> IF HasHolder(closures[c].profMap, icon.dataTag)
                               THEN HolderOf(closures[c].profMap, icon.dataTag) ELSE <<>>,
                    dest |-> icon.dataProfName, outcome |-> r.outcome,
                    again |-> /\ last.op = "icon" /\ last.outcome = "done" /\ last.cl = c
                              /\ last.tag = icon.dataTag /\ last.dest = icon.dataProfName],
                   teamSection)

\* the user picks an option of a card's dropdown, lines 377-441: a change
\* event carries the value of an option other than the one the select shows,
\* and the select shows the option picked.  The team section is hidden
\* while the individual tab is selected (line 63).  Every render writes
\* fresh selects showing the empty first option and carrying no listener:
\* until attachDropdownListeners has run (lines 367, 440, 447) a pick runs no
\* listener.  A select goes on showing the option picked when the listener
\* renders nothing, and the first option can then be picked again
DropdownChange(i, value) ==
    /\ teamSection.kind = "cards"
    /\ currentMode = "team"
    /\ i \in 1..Len(teamSection.cards)
    /\ teamSection.cards[i].hasSelect
    /\ value \in teamSection.cards[i].options \cup {<<>>}
    /\ value # teamSection.cards[i].value
    /\ IF teamSection.listener = 0
       THEN /\ teamSection' = [teamSection EXCEPT !.cards[i].value = value]
            /\ UNCHANGED <<plan, issued, inflight, currentApiData, closures, tagTable,
                           timers, last>>
            /\ UNCHANGED <<viewVars, filterVars, backendVars>>
       ELSE LET c == teamSection.listener
                card == teamSection.cards[i]
                r == DropdownHandler(closures[c], card.dataCurrentProf, card.dataTags,
                                     value)
            IN  /\ r.outcome = "done" => Len(timers) + 2 <= MaxTimers
                /\ AfterRun(c, r,
                           [op |-> "dropdown", cl |-> c, tag |-> card.dataTag,
                            tags |-> card.dataTags, source |-> card.dataCurrentProf,
                            dest |-> value, outcome |-> r.outcome,
                            again |-> /\ last.op = "dropdown" /\ last.outcome = "done"
                                      /\ last.cl = c /\ last.tags = card.dataTags
                                      /\ last.source = card.dataCurrentProf
                                      /\ last.dest = value],
                           [teamSection EXCEPT !.cards[i].value = value])

Next ==
    \/ HandleAnalyzeClick
    \/ \E k \in 1..Len(plan) : AnalyzeProblemOk(k)
    \/ \E k \in 1..Len(plan) : AnalyzeProblemFail(k)
    \/ HandleClearClick
    \/ \E mode \in {"team", "individual"} : SwitchTab(mode)
    \/ \E value \in {"relevance", "alphabetical"} : SortByChange(value)
    \/ FilterDepartmentChange
    \/ TagTableTimer
    \/ AttachDropdownListeners
    \/ \E icon \in tagTable.icons : SwapIconClick(icon)
    \/ \E i \in 1..Len(teamSection.cards) :
          \E value \in teamSection.cards[i].options \cup {<<>>} : DropdownChange(i, value)

Spec == Init /\ [][Next]_vars

(***************************************************************************)
(* A page on which two problems are analyzed, against one roster: the      *)
(* second request can be sent while timers and the table of the first are  *)
(* still there.                                                            *)
(***************************************************************************)
AppRoster ==
    [e \in Range(Experts) |->
        IF e = Experts[1] THEN {RequiredTags[1]}
        ELSE IF e = Experts[2] THEN {RequiredTags[1], RequiredTags[2]}
        ELSE {}]

\* the two problems: one requiring the first tag, one the first two
AppQueries == {<<RequiredTags[1]>>, <<RequiredTags[1], RequiredTags[2]>>}

AppResponse(q) ==
    AnalyzeResponse(q, Experts, AppRoster, [e \in Range(Experts) |-> 1], TRUE)

InitApp ==
    /\ plan \in {<<AppResponse(p[1]), AppResponse(p[2])>> :
                    p \in {p \in AppQueries \X AppQueries : p[1] # p[2]}}
    /\ InitPage
    /\ InitBackend

SpecApp == InitApp /\ [][Next]_vars

(***************************************************************************)
(* A page with its two tabs, on which one problem is analyzed: the         *)
(* response carries the individual list, for every rank score of the       *)
(* experts.                                                                *)
(***************************************************************************)
ViewResponses ==
    {[team |-> AppResponse(q).team,
      all_profs_by_tag |-> AppResponse(q).all_profs_by_tag,
      not_found_tags |-> AppResponse(q).not_found_tags,
      individual |-> Individual(Experts, rank)] :
        q \in AppQueries, rank \in [Range(Experts) -> 1..MaxScore]}

InitView ==
    /\ plan \in {<<r>> : r \in ViewResponses}
    /\ InitPage
    /\ InitBackend

SpecView == InitView /\ [][Next]_vars

(***************************************************************************)
(* The page with its two tabs, on which two problems requiring the first   *)
(* tag are analyzed, the rank scores of the experts differing between the  *)
(* two responses.                                                          *)
(***************************************************************************)
ViewResponsesOf(q) ==
    {r \in ViewResponses : r.all_profs_by_tag = AppResponse(q).all_profs_by_tag}

InitViewApp ==
    /\ plan \in {<<p[1], p[2]>> :
                    p \in {p \in ViewResponsesOf(<<RequiredTags[1]>>)
                                    \X ViewResponsesOf(<<RequiredTags[1]>>) : p[1] # p[2]}}
    /\ InitPage
    /\ InitBackend

SpecViewApp == InitViewApp /\ [][Next]_vars

(***************************************************************************)
(* The embedding cache of the Similarity Scorer, under parallel matching   *)
(* requests.  The back end is not part of the sources; the cache is        *)
(* modelled from the specification: entries are populated lazily on the    *)
(* first reference to an expert, population is locked per key, an entry    *)
(* that is populated is read without the lock, and an entry is unpopulated *)
(* again by invalidate(expert_id) alone.  populations counts, per key, the *)
(* computations of the embedding since the entry was last unpopulated.     *)
(***************************************************************************)
\* a request refers to the embedding of an expert
Reference(w, key) ==
    /\ workers[w].pc = "idle"
    /\ workers' = [workers EXCEPT ![w] = [IdleWorker EXCEPT !.pc = "read", !.key = key]]
    /\ UNCHANGED <<cache, cacheLock, populations>>

\* the read without lock: a populated entry is returned as it is found
ReadEntry(w) ==
    /\ workers[w].pc = "read"
    /\ workers' = [workers EXCEPT ![w] =
                      IF cache[workers[w].key] # <<>>
                      THEN [@ EXCEPT !.pc = "idle", !.got = cache[workers[w].key],
                                     !.via = "read"]
                      ELSE [@ EXCEPT !.pc = "acquire"]]
    /\ UNCHANGED <<cache, cacheLock, populations>>

\* the population lock of the key is taken when it is free
Acquire(w) ==
    /\ workers[w].pc = "acquire"
    /\ cacheLock[workers[w].key] = 0
    /\ cacheLock' = [cacheLock EXCEPT ![workers[w].key] = w]
    /\ workers' = [workers EXCEPT ![w].pc = "recheck"]
    /\ UNCHANGED <<cache, populations>>

\* a variant of Recheck that computes the embedding without looking at the
\* entry again
RecheckSkipped(w) ==
    /\ workers[w].pc = "recheck"
    /\ workers' = [workers EXCEPT ![w].pc = "compute"]
    /\ UNCHANGED <<cache, cacheLock, populations>>

\* under the lock the entry is looked at again: a request that waited for
\* the lock while another populated the entry takes that entry
Recheck(w) ==
    /\ workers[w].pc = "recheck"
    /\ IF cache[workers[w].key] # <<>>
       THEN /\ workers' = [workers EXCEPT ![w] =
                              [@ EXCEPT !.pc = "idle", !.got = cache[workers[w].key],
                                        !.via = "recheck"]]
            /\ cacheLock' = [cacheLock EXCEPT ![workers[w].key] = 0]
       ELSE /\ workers' = [workers EXCEPT ![w].pc = "compute"]
            /\ UNCHANGED cacheLock
    /\ UNCHANGED <<cache, populations>>

\* the embedding provider answers: the vector is kept by the request
Compute(w) ==
    /\ workers[w].pc = "compute"
    /\ populations[workers[w].key] < MaxPopulations
    /\ workers' = [workers EXCEPT ![w] =
                      [@ EXCEPT !.pc = "store", !.local = Embedding(workers[w].key)]]
    /\ populations' = [populations EXCEPT ![workers[w].key] = @ + 1]
    /\ UNCHANGED <<cache, cacheLock>>

\* the embedding provider times out: EmbeddingUnavailableError for this
\* expert, the entry stays unpopulated and the lock is given back
ComputeTimeout(w) ==
    /\ workers[w].pc = "compute"
    /\ workers' = [workers EXCEPT ![w] = [IdleWorker EXCEPT !.via = "unavailable"]]
    /\ cacheLock' = [cacheLock EXCEPT ![workers[w].key] = 0]
    /\ UNCHANGED <<cache, populations>>

\* the whole vector is put into the cache in one write, and the lock is
\* given back
Store(w) ==
    /\ workers[w].pc = "store"
    /\ cache' = [cache EXCEPT ![workers[w].key] = workers[w].local]
    /\ cacheLock' = [cacheLock EXCEPT ![workers[w].key] = 0]
    /\ workers' = [workers EXCEPT ![w] =
                      [@ EXCEPT !.pc = "idle", !.got = workers[w].local,
                                !.via = "populated"]]
    /\ UNCHANGED populations

\* invalidate(expert_id), on the signal that the profile has changed: a
\* write of the key, made when no other write of the key is under way; the
\* entry is unpopulated and the next reference populates it again
Invalidate(key) ==
    /\ cache[key] # <<>>
    /\ cacheLock[key] = 0
    /\ cache' = [cache EXCEPT ![key] = <<>>]
    /\ populations' = [populations EXCEPT ![key] = 0]
    /\ UNCHANGED <<cacheLock, workers>>

NextCache ==
    \/ \E w \in Workers, key \in CacheKeys :
          Reference(w, key) /\ UNCHANGED <<pageVars, assembly, build>>
    \/ \E key \in CacheKeys : Invalidate(key) /\ UNCHANGED <<pageVars, assembly, build>>
    \/ \E w \in Workers : ReadEntry(w) /\ UNCHANGED <<pageVars, assembly, build>>
    \/ \E w \in Workers : Acquire(w) /\ UNCHANGED <<pageVars, assembly, build>>
    \/ \E w \in Workers : Recheck(w) /\ UNCHANGED <<pageVars, assembly, build>>
    \/ \E w \in Workers : Compute(w) /\ UNCHANGED <<pageVars, assembly, build>>
    \/ \E w \in Workers : ComputeTimeout(w) /\ UNCHANGED <<pageVars, assembly, build>>
    \/ \E w \in Workers : Store(w) /\ UNCHANGED <<pageVars, assembly, build>>

InitCacheSpec ==
    /\ plan = <<>>
    /\ InitPage
    /\ InitBackend

SpecCache == InitCacheSpec /\ [][NextCache]_vars

(***************************************************************************)
(* The Team Assembler called on its own: assemble(required_tags, roster),  *)
(* for every sequence of different required tags, every roster and every   *)
(* semantic score of the experts for the query.                            *)
(***************************************************************************)
\* the sequences of at most n different tags
RECURSIVE UniqueSeqs(_, _)
UniqueSeqs(tags, n) ==
    IF n = 0 THEN {<<>>}
    ELSE LET shorter == UniqueSeqs(tags, n - 1)
         IN  shorter \cup {Append(q, t) : q \in shorter, t \in tags}

\* required_tags is an ordered sequence without repetition
RequiredSeqs ==
    {q \in UniqueSeqs(Range(RequiredTags), Len(RequiredTags)) :
        \A i, j \in 1..Len(q) : q[i] = q[j] => i = j}

InitAssemble ==
    /\ plan = <<>>
    /\ InitPage
    /\ InitCache
    /\ build = NoBuild
    /\ assembly \in {[NoAssembly EXCEPT !.required = q, !.roster = roster, !.sem = sem] :
                        q \in RequiredSeqs,
                        roster \in RostersUpTo(MaxAssembled) \cup NamedRosters,
                        sem \in [Range(Experts) -> 1..MaxScore]}

Assemble ==
    /\ ~assembly.done
    /\ LET assigned == Assign(assembly.required, Experts, assembly.roster, assembly.sem)
       IN  assembly' =
              [assembly EXCEPT
                  !.done = TRUE,
                  !.assigned = assigned,
                  !.team = TeamEntries(assigned, assembly.sem, FALSE, 1),
                  !.not_found_tags =
                      NotFoundTags(assembly.required, Experts, assembly.roster)]
    /\ UNCHANGED <<pageVars, cacheVars, build>>

NextAssemble == Assemble

SpecAssemble == InitAssemble /\ [][NextAssemble]_vars

(***************************************************************************)
(* The team of a response from its arrival to the team as built: the sort  *)
(* of analyzeProblem, lines 144-149, by the criteria #sort-by shows, and   *)
(* the construction of renderResults, lines 233-242, on the sorted list;   *)
(* followed on its own for every team list of at most MaxEntries entries   *)
(* and both criteria.  An entry names an expert, carries at most two tags  *)
(* and a score of 1..MaxScore.                                             *)
(***************************************************************************)
EntryTags ==
    {<<>>} \cup {<<t>> : t \in Range(RequiredTags)}
           \cup {<<RequiredTags[1], RequiredTags[2]>>}

TeamEntry ==
    {[name |-> n, tags |-> tg, score |-> sc] :
        n \in Range(Experts), tg \in EntryTags, sc \in 1..MaxScore}

\* the options of #sort-by, index.html lines 164-167
SortCriteria == {"relevance", "alphabetical"}

RECURSIVE TeamLists(_)
TeamLists(n) ==
    IF n = 0 THEN {<<>>}
    ELSE LET shorter == TeamLists(n - 1)
         IN  shorter \cup {Append(t, e) : t \in shorter, e \in TeamEntry}

InitBuild ==
    /\ plan = <<>>
    /\ InitPage
    /\ InitCache
    /\ assembly = NoAssembly
    /\ build \in {[NoBuild EXCEPT !.response = t, !.team = t, !.criteria = criteria] :
                       t \in TeamLists(MaxEntries), criteria \in SortCriteria}

\* sortResults(currentResults, sortBySelect.value), line 149, sorts the team
\* of the response in place; apiData.team.forEach(...), lines 233-242,
\* builds from the sorted list
BuildStep ==
    /\ ~build.done
    /\ LET sorted == SortResults(build.team, build.criteria)
           built == BuildTeam(sorted)
       IN  build' = [build EXCEPT !.team = sorted,
                                  !.done = TRUE,
                                  !.profMap = built.profMap,
                                  !.profOrder = built.profOrder]
    /\ UNCHANGED <<pageVars, assembly, cacheVars>>

NextBuild == BuildStep

SpecBuild == InitBuild /\ [][NextBuild]_vars

(***************************************************************************)
(* Properties of a team session: one closure, from the team as built and   *)
(* through the moves made on it.                                           *)
(***************************************************************************)
Closures == 1..Len(closures)

\* a listener has run to its end on closure c and was the latest to run
Moved(c) == last.cl = c /\ last.outcome = "done"

\* the members of a profMap, as a set of names
Members(profMap) == {profMap[i].name : i \in 1..Len(profMap)}

NoDuplicates(s) == \A i, j \in 1..Len(s) : s[i] = s[j] => i = j

\* C1: coverage is preserved: in every session, after the team is built and
\* after every move, the tags assigned to the members are exactly the tags
\* assigned in the team as built.
C1_CoveragePreserved ==
    \A c \in Closures : AssignedTags(closures[c].profMap) = closures[c].assigned0

\* a dropdown move has been made in a session whose team holds several tags,
\* and left a member holding several of them
C1_Witness ==
    \E c \in Closures :
        /\ Moved(c)
        /\ last.op = "dropdown"
        /\ Cardinality(closures[c].assigned0) >= 2
        /\ \E i \in 1..Len(closures[c].profMap) : Len(closures[c].profMap[i].tags) >= 2

\* C2: in every session no tag is held by two members, and no member holds
\* a tag twice.
C2_TagHeldOnce ==
    \A c \in Closures :
        LET pm == closures[c].profMap
        IN  /\ \A i, j \in 1..Len(pm) :
                  i # j => Range(pm[i].tags) \cap Range(pm[j].tags) = {}
            /\ \A i \in 1..Len(pm) : NoDuplicates(pm[i].tags)

\* C3: after every mutation no member holds an empty tag set: an emptied
\* source is gone from profMap and profOrder, and no move brings in or
\* leaves a member without tags.
C3_NoEmptyMember ==
    \A c \in Closures :
        /\ \A i \in 1..Len(closures[c].profMap) : closures[c].profMap[i].tags # <<>>
        /\ Range(closures[c].profOrder) = Members(closures[c].profMap)

(***************************************************************************)
(* Properties of one move: a step in which a listener ran to its end.      *)
(* last' names the listener, its closure, the source and the destination.  *)
(***************************************************************************)
DoneStep ==
    /\ Len(closures') = Len(closures)
    /\ Len(timers') > Len(timers)
    /\ last'.outcome = "done"

\* the tags of a name in a profMap, none for a name that is no member
TagsOrNone(profMap, name) ==
    IF HasProf(profMap, name) THEN TagsOf(profMap, name) ELSE <<>>

\* the roster index lists the name under the tag
Possesses(apiData, name, tag) == Includes(AllProfs(apiData, tag), name)

\* names present in both orders stand in the same relative order
SameRelativeOrder(o1, o2) ==
    \A n, m \in Range(o1) \cap Range(o2) :
        (IndexOf(o1, n) < IndexOf(o1, m)) <=> (IndexOf(o2, n) < IndexOf(o2, m))

\* the session after a click on the swap icon
AfterIcon(cl, icon) == Applied(cl, SwapIconHandler(cl, icon.dataProfName, icon.dataTag))

\* two members of the team stand as they stood after any two clicks on swap
\* icons that leave them both in the team, whether or not one of them left
\* the team in between
KeepsFirstPlaces(cl) ==
    \A first, second \in TagTableIcons(cl.apiData) :
        SameRelativeOrder(cl.profOrder, AfterIcon(AfterIcon(cl, first), second).profOrder)

\* C4: the order of a session never lists a name twice, every step keeps
\* the relative order of the members that are in the team before and after
\* it, and a member stands where it stood when it was first introduced,
\* also when it has left the team and come back.
C4_OrderStable ==
    [][\A c \in 1..Len(closures') :
          /\ NoDuplicates(closures'[c].profOrder)
          /\ c <= Len(closures) =>
                SameRelativeOrder(closures[c].profOrder, closures'[c].profOrder)
          /\ (c > Len(closures) \/ closures'[c] # closures[c]) =>
                KeepsFirstPlaces(closures'[c])]_vars

\* C4, amended: the order of a session never lists a name twice, and every
\* step keeps the relative order of the members that are in the team before
\* and after it: a position, once given to a member, is not changed for as
\* long as the member stays in the team.
C4_OrderStableWhileMember ==
    [][\A c \in 1..Len(closures') :
          /\ NoDuplicates(closures'[c].profOrder)
          /\ c <= Len(closures) =>
                SameRelativeOrder(closures[c].profOrder, closures'[c].profOrder)]_vars

\* a move has put a new member between two members that stay
C4_Witness ==
    \E c \in Closures :
        /\ Moved(c)
        /\ Len(closures[c].profOrder) >= 3
        /\ IndexOf(closures[c].profOrder, last.dest) = 1
        /\ IndexOf(closures[c].profOrder, last.source) = 0

\* a move of one tag: by a swap icon, or by the dropdown of a one-tag card
SingleTagStep ==
    DoneStep /\ (last'.op = "icon" \/ (last'.op = "dropdown" /\ last'.tag # <<>>))

\* the tags after are the tags before and the tag: the tags before followed
\* by the tag, when they held each tag once and not that tag
FollowedBy(before, after, t) ==
    /\ Range(after) = Range(before) \cup {t}
    /\ (NoDuplicates(before) /\ ~Includes(before, t)) => after = Append(before, t)

C7_ZeroOverlapRejected ==
    [][DoneStep =>
          LET c == last'.cl
              S == last'.source
              D == last'.dest
              pm == closures[c].profMap
          IN  (\A t \in Range(TagsOrNone(pm, S)) : ~Possesses(closures[c].apiData, D, t)) =>
                 /\ closures'[c].profMap = pm
                 /\ closures'[c].profOrder = closures[c].profOrder]_vars

(***************************************************************************)
(* The same request made twice.                                            *)
(***************************************************************************)
\* a step in which a listener ran
RunStep == last' # last \/ DoneStep

\* the team of a closure
Team(cl) == [profMap |-> cl.profMap, profOrder |-> cl.profOrder]

\* the cards written after a run show a select with the attributes of the
\* card and the option of the value: the same pick can be made again
OffersAgain(cl, card, value) ==
    \E k \in 1..Len(RenderTeamCards(cl).cards) :
        LET again == RenderTeamCards(cl).cards[k]
        IN  /\ again.hasSelect
            /\ again.dataCurrentProf = card.dataCurrentProf
            /\ again.dataTags = card.dataTags
            /\ value \in again.options

\* every request a closure offers and that can be made a second time right
\* after it was carried out (the icons of the table stay; a pick is made on
\* the cards the first run wrote) runs to its end or to an early return the
\* second time, without exception, and leaves the team the first run left
ReplayChangesNothing(cl) ==
    /\ \A icon \in TagTableIcons(cl.apiData) :
          LET first == SwapIconHandler(cl, icon.dataProfName, icon.dataTag)
              once == Applied(cl, first)
              second == SwapIconHandler(once, icon.dataProfName, icon.dataTag)
          IN  first.outcome = "done" =>
                 /\ second.outcome = "return"
                 /\ Team(Applied(once, second)) = Team(once)
    /\ \A k \in 1..Len(RenderTeamCards(cl).cards) :
          LET card == RenderTeamCards(cl).cards[k]
          IN  \A value \in card.options :
                 LET first == DropdownHandler(cl, card.dataCurrentProf, card.dataTags, value)
                     once == Applied(cl, first)
                     second == DropdownHandler(once, card.dataCurrentProf, card.dataTags,
                                               value)
                 IN  (first.outcome = "done" /\ OffersAgain(once, card, value)) =>
                        /\ second.outcome = "done"
                        /\ Team(Applied(once, second)) = Team(once)

\* C8: the same reassignment applied twice in a row gives the team that one
\* application gives, the second application ending without exception: a
\* listener run repeating the inputs of the completed run before it changes
\* no team and throws nothing, and for every team built or left by a move,
\* each request the page offers on it and offers again after carrying it
\* out would, made twice, leave the team its first run left.
C8_Idempotent ==
    [][/\ (RunStep /\ last'.again) => (closures' = closures /\ last'.outcome # "throw")
       /\ \A c \in 1..Len(closures') :
             (c > Len(closures) \/ closures'[c] # closures[c]) =>
                ReplayChangesNothing(closures'[c])]_vars

\* the tags a listener run was asked to move
RequestedTags(run) ==
    IF run.op = "icon" THEN {run.tag}
    ELSE IF JsonParse(run.tags).ok THEN Range(JsonParse(run.tags).val) ELSE {}

\* C9: a request naming a tag that its stated source does not hold, the
\* source being a member or not, is turned down quietly: the listener
\* raises no exception and no team changes.
C9_StaleRequestRejected ==
    [][RunStep =>
          LET c == last'.cl
              held == Range(TagsOrNone(closures[c].profMap, last'.source))
          IN  (\E t \in RequestedTags(last') : t \notin held) =>
                 /\ last'.outcome # "throw"
                 /\ closures' = closures]_vars

\* C10: a destination that is not yet a member enters the order right after
\* the source, taking the source's place when the move empties the source;
\* a destination that is a member keeps its place, the order changing by
\* the removal of an emptied source at most.
C10_InsertedAfterSource ==
    [][DoneStep =>
          LET c == last'.cl
              S == last'.source
              D == last'.dest
              pm == closures[c].profMap
              order == closures[c].profOrder
              orderAfter == closures'[c].profOrder
              kept == SelectSeq(order, LAMBDA n : n \in Range(orderAfter))
          IN  HasProf(pm, S) =>
                 IF HasProf(pm, D)
                 THEN orderAfter = kept
                 ELSE /\ SelectSeq(orderAfter, LAMBDA n : n # D) = kept
                      /\ IF S \in Range(orderAfter)
                         THEN IndexOf(orderAfter, D) = IndexOf(orderAfter, S) + 1
                         ELSE IndexOf(orderAfter, D) = IndexOf(order, S)]_vars

\* a move has emptied a source that stood between two members and put an
\* expert new to the team in its place
C10_Witness ==
    \E c \in Closures :
        /\ Moved(c)
        /\ Len(closures[c].profOrder) = 3
        /\ IndexOf(closures[c].profOrder, last.dest) = 1
        /\ ~HasProf(closures[c].profMap, last.source)
        /\ TagsOrNone(closures[c].profMap, last.dest) = <<last.tag>>

(***************************************************************************)
(* A new analysis on a page that shows a team already.                     *)
(***************************************************************************)
\* the team most recently built from a response
NewTeam == Len(closures)

\* C12: a new query replaces the whole team: when the response of an
\* analysis is rendered, the team is the one built from that response and
\* the team section shows it, and every move made afterwards is a move on
\* that team, the team built last, never on a team built before it.
C12_NewQueryReplacesTeam ==
    [][/\ \A k \in inflight \ inflight' :
             Len(closures') > Len(closures) =>
                /\ Team(closures'[Len(closures')]) =
                      BuildTeam(SortResults(plan[k].team, sortBy))
                /\ teamSection' = RenderTeamCards(closures'[Len(closures')])
       /\ DoneStep => last'.cl = NewTeam]_vars

(***************************************************************************)
(* A move as one step.                                                     *)
(***************************************************************************)
\* the tags a step took from a name in closure c
Lost(c, name) ==
    Range(TagsOrNone(closures[c].profMap, name))
        \ Range(TagsOrNone(closures'[c].profMap, name))

C14_RosterReadOnly ==
    [][/\ \A c \in 1..Len(closures) : closures'[c].apiData = closures[c].apiData
       /\ \A k \in inflight \ inflight' :
             Len(closures') > Len(closures) =>
                /\ closures'[Len(closures')].apiData.all_profs_by_tag =
                      plan[k].all_profs_by_tag
                /\ closures'[Len(closures')].apiData.not_found_tags =
                      plan[k].not_found_tags
       /\ tagTable' # tagTable /\ ~tagTable'.hidden =>
             tagTable'.icons = TagTableIcons(closures[tagTable'.owner].apiData)]_vars

\* after a move in a session that has a tag without expert and a tag with
\* two experts, the timers of the move have run and rebuilt the table
C14_Witness ==
    \E c \in Closures :
        /\ Moved(c)
        /\ timers = <<>>
        /\ tagTable.owner = c /\ ~tagTable.hidden
        /\ closures[c].apiData.not_found_tags # <<>>
        /\ \E t \in DOMAIN closures[c].apiData.all_profs_by_tag :
              Len(closures[c].apiData.all_profs_by_tag[t]) >= 2

(***************************************************************************)
(* The Team Assembler.                                                     *)
(***************************************************************************)
\* the members of a team with their tags, without the scores
NamesAndTags(team) == [i \in 1..Len(team) |-> <<team[i].name, team[i].tags>>]

\* the roster in which the named experts possess the named tags and the
\* other experts none
RosterOf(declared) ==
    [e \in Range(Experts) |-> {t \in Range(RequiredTags) : <<e, t>> \in declared}]

\* C15: for every sequence of required tags and every roster, the tags
\* assigned across the members of the assembled team are the required tags
\* that are not reported as not found, and each of them is assigned once:
\* to one member, one time.  Required [x, y] with a: {x}, b: {y} gives the
\* team of a(x) and b(y), a first when the semantic scores are equal, and
\* nothing not found.
C15_AssemblerCoversRequired ==
    assembly.done =>
       LET team == assembly.team
       IN  /\ UNION {Range(team[i].tags) : i \in 1..Len(team)} =
                 Range(assembly.required) \ Range(assembly.not_found_tags)
           /\ \A i, j \in 1..Len(team) :
                 i # j => Range(team[i].tags) \cap Range(team[j].tags) = {}
           /\ \A i \in 1..Len(team) : NoDuplicates(team[i].tags)
           /\ (/\ assembly.required = <<RequiredTags[1], RequiredTags[2]>>
               /\ assembly.roster = RosterOf({<<Experts[1], RequiredTags[1]>>,
                                              <<Experts[2], RequiredTags[2]>>}))
              => /\ Len(team) = 2
                 /\ Range(NamesAndTags(team)) = { <<Experts[1], <<RequiredTags[1]>> >>,
                                                  <<Experts[2], <<RequiredTags[2]>> >> }
                 /\ assembly.sem[Experts[1]] = assembly.sem[Experts[2]] =>
                       team[1].name = Experts[1]
                 /\ assembly.not_found_tags = <<>>

\* a team of two has been assembled for three required tags, one member
\* holding two of them
C15_Witness ==
    /\ assembly.done
    /\ Len(assembly.required) = 3
    /\ Len(assembly.team) = 2
    /\ \E i \in 1..Len(assembly.team) : Len(assembly.team[i].tags) = 2

\* the required tags some expert possesses and that are not assigned before
\* the i-th assignment
OpenAt(i) ==
    {t \in Range(assembly.required) :
        /\ \E e \in Range(Experts) : t \in assembly.roster[e]
        /\ \A j \in 1..(i - 1) : assembly.assigned[j].tag # t}

\* the number of tags open at the i-th assignment that the expert possesses
CoversAt(i, e) == Cardinality(OpenAt(i) \cap assembly.roster[e])

\* C16: assembly is greedy by coverage: every assignment gives an open tag
\* to an expert possessing it that covers at least as many open tags as any
\* other expert; among the experts covering as many it has the highest
\* semantic score, and among those with that score too the smallest
\* identifier.  Required [x, y] with a: {x, y}, b: {x} gives the team [a],
\* holding both tags.
C16_GreedyByCoverage ==
    assembly.done =>
       /\ \A i \in 1..Len(assembly.assigned) :
             LET e == assembly.assigned[i].name
             IN  /\ assembly.assigned[i].tag \in OpenAt(i) \cap assembly.roster[e]
                 /\ \A f \in Range(Experts) \ {e} :
                       \/ CoversAt(i, e) > CoversAt(i, f)
                       \/ /\ CoversAt(i, e) = CoversAt(i, f)
                          /\ assembly.sem[e] > assembly.sem[f]
                       \/ /\ CoversAt(i, e) = CoversAt(i, f)
                          /\ assembly.sem[e] = assembly.sem[f]
                          /\ LexLess(e, f)
       /\ (/\ assembly.required = <<RequiredTags[1], RequiredTags[2]>>
           /\ assembly.roster = RosterOf({<<Experts[1], RequiredTags[1]>>,
                                          <<Experts[1], RequiredTags[2]>>,
                                          <<Experts[2], RequiredTags[1]>>}))
          => NamesAndTags(assembly.team) =
                << <<Experts[1], <<RequiredTags[1], RequiredTags[2]>> >> >>

\* a first assignment went to an expert with a lower semantic score than
\* another expert possessing the tag, because it covers more tags; and a
\* later one was decided by the semantic score between experts covering
\* as many tags
C16_Witness ==
    /\ assembly.done
    /\ Len(assembly.assigned) = 3
    /\ \E f \in Range(Experts) :
          /\ assembly.sem[f] > assembly.sem[assembly.assigned[1].name]
          /\ assembly.assigned[1].tag \in assembly.roster[f]
    /\ \E i \in 2..3 : \E f \in Range(Experts) \ {assembly.assigned[i].name} :
          /\ CoversAt(i, f) = CoversAt(i, assembly.assigned[i].name)
          /\ assembly.sem[f] < assembly.sem[assembly.assigned[i].name]
          /\ LexLess(f, assembly.assigned[i].name)

\* some expert of the roster possesses the tag
HasExpert(t) == \E e \in Range(Experts) : t \in assembly.roster[e]

\* C17: assembly fails softly: when a call has returned, the not-found
\* list is the required tags no expert possesses, in the order required,
\* none of them is assigned, every other required tag is assigned, and
\* when no required tag has an expert the team is empty.
C17_AssemblyFailsSoftly ==
    assembly.done =>
       LET team == assembly.team
           assignedTags == UNION {Range(team[i].tags) : i \in 1..Len(team)}
       IN  /\ assembly.not_found_tags =
                 SelectSeq(assembly.required, LAMBDA t : ~HasExpert(t))
           /\ assignedTags \cap Range(assembly.not_found_tags) = {}
           /\ \A t \in Range(assembly.required) : HasExpert(t) => t \in assignedTags
           /\ (\A t \in Range(assembly.required) : ~HasExpert(t)) => team = <<>>

\* of three required tags one has no expert, and the other two are
\* assigned to two members
C17_Witness ==
    /\ assembly.done
    /\ Len(assembly.required) = 3
    /\ Len(assembly.not_found_tags) = 1
    /\ Len(assembly.team) = 2

(***************************************************************************)
(* The individual view.                                                    *)
(***************************************************************************)
\* a list of [name, rank_score] is the whole roster by descending rank
\* score, experts of equal score by ascending identifier
RankedRoster(list) ==
    /\ Len(list) = Cardinality(Range(Experts))
    /\ {list[i].name : i \in 1..Len(list)} = Range(Experts)
    /\ \A i, j \in 1..Len(list) :
          i < j => \/ list[i].rank_score > list[j].rank_score
                   \/ /\ list[i].rank_score = list[j].rank_score
                      /\ LexLess(list[i].name, list[j].name)

\* C19: the individual list stored from a response is the roster by
\* descending rank score, equal scores by ascending identifier, and a list
\* written into the individual view shows the experts in exactly that order,
\* numbered 1, 2, ... from the top.
C19_IndividualRanked ==
    /\ currentApiData.individual.has => RankedRoster(currentApiData.individual.list)
    /\ individualSection.kind = "list" =>
          /\ RankedRoster(individualSection.rows)
          /\ \A i \in 1..Len(individualSection.rows) : individualSection.rows[i].number = i

\* the individual tab shows a list in which the second and third experts
\* have the same rank score, below the first's
C19_Witness ==
    /\ currentMode = "individual"
    /\ individualSection.kind = "list"
    /\ Len(individualSection.rows) = 3
    /\ individualSection.rows[1].rank_score > individualSection.rows[2].rank_score
    /\ individualSection.rows[2].rank_score = individualSection.rows[3].rank_score

(***************************************************************************)
(* A failed analysis.                                                      *)
(***************************************************************************)
\* C18: a failed analysis stores and renders nothing of its request: in the
\* step that answers a request with the error message, the stored response
\* and results, the teams built, the tag-wise table, the individual view and
\* the pending callbacks are left as they were, and the team section shows no
\* card.
C18_FailedAnalysisStoresNothing ==
    [][(inflight' # inflight /\ teamSection'.kind = "error") =>
          /\ currentApiData' = currentApiData
          /\ currentResults' = currentResults
          /\ closures' = closures
          /\ tagTable' = tagTable
          /\ timers' = timers
          /\ individualSection' = individualSection
          /\ currentMode' = currentMode
          /\ teamSection'.cards = <<>>]_vars

\* the second of two analyses has failed after the first was stored and
\* rendered: the error message is shown and the first response is stored
C18_Witness ==
    /\ teamSection.kind = "error"
    /\ issued = 2
    /\ inflight = {}
    /\ currentApiData.request = 1
    /\ Len(closures) = 1
    /\ ~tagTable.hidden

(***************************************************************************)
(* The embedding cache.                                                    *)
(***************************************************************************)
\* the requests computing or storing the embedding of the key
Populating(key) == {w \in Workers : workers[w].key = key /\ workers[w].pc \in {"compute", "store"}}

\* C20: the cache serializes writes per key: for every identifier at most
\* one request is populating its entry at a time, holding the lock of the
\* key, and an embedding is computed for an unpopulated entry only, once
\* each time the entry is unpopulated, also when two requests refer to it
\* first at the same time; an entry is unpopulated or the complete
\* embedding, and every entry a request got, with or without the lock, is
\* the complete embedding.
C20_CachePopulatedOncePerKey ==
    /\ \A key \in CacheKeys :
          /\ Cardinality(Populating(key)) <= 1
          /\ populations[key] <= 1
          /\ \A w \in Workers :
                (workers[w].key = key /\ workers[w].pc = "store") => cache[key] = <<>>
          /\ cache[key] \in {<<>>, Embedding(key)}
          /\ Populating(key) # {} => cacheLock[key] \in Populating(key)
    /\ \A w \in Workers :
          workers[w].via \in {"read", "recheck", "populated"} =>
             workers[w].got = Embedding(workers[w].key)

\* two requests referred to an unpopulated entry at the same time: one has
\* populated it, the other waited for the lock and took the entry it found,
\* which is in the cache
C20_Witness ==
    \E w1, w2 \in Workers :
        /\ w1 # w2
        /\ workers[w1].key = workers[w2].key
        /\ workers[w1].via = "populated"
        /\ workers[w2].via = "recheck"
        /\ workers[w1].pc = "idle"
        /\ workers[w2].pc = "idle"
        /\ cache[workers[w1].key] = Embedding(workers[w1].key)
        /\ populations[workers[w1].key] = 1

(***************************************************************************)
(* The team against the roster index.                                      *)
(***************************************************************************)
\* every tag a member of the profMap holds is a tag the index lists the
\* member under
HoldsOnlyPossessed(cl) ==
    \A i \in 1..Len(cl.profMap) :
        \A t \in Range(cl.profMap[i].tags) :
            Possesses(cl.apiData, cl.profMap[i].name, t)

\* C21: every tag assigned to a team member is a tag the roster index lists
\* that member under: it holds of the team as built and after every
\* single-tag and multi-tag move, moves from a source holding exactly one
\* tag included.
C21_AssignedTagsPossessed ==
    \A c \in Closures : HoldsOnlyPossessed(closures[c])

(***************************************************************************)
(* The team as built.                                                      *)
(***************************************************************************)
\* the place of the first entry of a list that names the expert
FirstEntry(team, name) ==
    CHOOSE i \in 1..Len(team) :
        team[i].name = name /\ \A j \in 1..(i - 1) : team[j].name # name

\* the tags of the entries of a list that name the expert, entry by entry
RECURSIVE TagsOfEntries(_, _)
TagsOfEntries(team, name) ==
    IF team = <<>> THEN <<>>
    ELSE (IF Head(team).name = name THEN Head(team).tags ELSE <<>>)
         \o TagsOfEntries(Tail(team), name)

\* the members built are those of the list, each once, in the order of
\* their first entries in the list
BuiltInFirstSeenOrderOf(team) ==
    LET names == {team[i].name : i \in 1..Len(team)}
    IN  /\ Range(build.profOrder) = names
        /\ NoDuplicates(build.profOrder)
        /\ \A n, m \in names :
              IndexOf(build.profOrder, n) < IndexOf(build.profOrder, m)
                 <=> FirstEntry(team, n) < FirstEntry(team, m)
        /\ Members(build.profMap) = names
        /\ \A n \in names :
              Cardinality({i \in 1..Len(build.profMap) : build.profMap[i].name = n}) = 1

\* C22: when the team of the response names an expert in several entries,
\* the session starts with one member for that expert, at the place of its
\* first entry in the response among the members and holding the tags of
\* all its entries; the order is the order in which the experts are first
\* seen in the response, without duplicate.
C22_BuiltFirstSeenMerged ==
    build.done =>
       /\ BuiltInFirstSeenOrderOf(build.response)
       /\ \A n \in Members(build.profMap) :
             Range(TagsOf(build.profMap, n)) = Range(TagsOfEntries(build.response, n))

\* C22, amended: the session starts with one member for each expert the
\* team of the response names, at the place of the expert's first entry in
\* the team as sorted by the criteria #sort-by shows (by descending score,
\* or by name; entries that compare equal keep the order of the response),
\* holding the tags of all its entries, entry by entry in the sorted order;
\* the order is first-seen order in the sorted list, without duplicate.
C22_BuiltFirstSeenMergedSorted ==
    build.done =>
       LET sorted == SortResults(build.response, build.criteria)
       IN  /\ BuiltInFirstSeenOrderOf(sorted)
           /\ \A n \in Members(build.profMap) :
                 TagsOf(build.profMap, n) = TagsOfEntries(sorted, n)

\* a response sorted by name names one expert in its first and third
\* entries, an expert of an earlier name in between: two members have been
\* built, the expert of the earlier name first, the other holding the tags
\* of both its entries
C22_Witness ==
    /\ build.done
    /\ build.criteria = "alphabetical"
    /\ Len(build.response) = 3
    /\ build.response[1].name = build.response[3].name
    /\ LocaleCompare(build.response[2].name, build.response[1].name) < 0
    /\ build.response[3].tags # <<>>
    /\ build.profOrder = <<build.response[2].name, build.response[1].name>>
    /\ TagsOf(build.profMap, build.response[1].name)
          = build.response[1].tags \o build.response[3].tags

(***************************************************************************)
(* What the swap icons of a session can reach.                             *)
(***************************************************************************)
\* the assignment of a profMap: the pairs of a tag and a member holding it
AssignmentOf(profMap) ==
    UNION {{<<t, profMap[i].name>> : t \in Range(profMap[i].tags)} :
              i \in 1..Len(profMap)}

\* the members of a profMap holding the tag
Holders(profMap, t) ==
    {profMap[i].name : i \in {j \in 1..Len(profMap) : Includes(profMap[j].tags, t)}}

\* the assignments that give each of the tags to one expert the index lists
\* under it
ValidAssignments(apiData, tags) ==
    {{<<t, f[t]>> : t \in tags} :
        f \in {g \in [tags -> UNION {Range(AllProfs(apiData, t)) : t \in tags}] :
                  \A t \in tags : Possesses(apiData, g[t], t)}}

\* the session after a pick of the value on the card
AfterPick(cl, card, value) ==
    Applied(cl, DropdownHandler(cl, card.dataCurrentProf, card.dataTags, value))

\* the sessions one single-tag move away: a click on a swap icon of the
\* table, or a pick on the card of a member holding one tag
SingleTagMoves(cl) ==
    {AfterIcon(cl, icon) : icon \in TagTableIcons(cl.apiData)}
      \cup UNION {{AfterPick(cl, RenderTeamCards(cl).cards[k], value) :
                      value \in RenderTeamCards(cl).cards[k].options} :
                  k \in {j \in 1..Len(RenderTeamCards(cl).cards) :
                            Len(RenderTeamCards(cl).cards[j].tags) = 1}}

\* the sessions reached from those of the frontier by single-tag moves
RECURSIVE SingleTagReachable(_, _)
SingleTagReachable(frontier, seen) ==
    LET next == UNION {SingleTagMoves(cl) : cl \in frontier} \ seen
    IN  IF next = {} THEN seen ELSE SingleTagReachable(next, seen \cup next)

\* one single-tag move leaves the tag with the expert alone and every other
\* tag where it was
MovableTo(cl, t, D) ==
    \E after \in SingleTagMoves(cl) :
        /\ Holders(after.profMap, t) = {D}
        /\ \A u \in AssignedTags(cl.profMap) \ {t} :
              Holders(after.profMap, u) = Holders(cl.profMap, u)

\* C23: every assignment that gives each assigned tag to an expert listed
\* for it is reached from the team as built by single-tag moves; and in
\* every team, built or left by whatever moves, each assigned tag can be
\* moved by one single-tag move to any other expert listed for it.
C23_AnyAssignmentReachable ==
    [][\A c \in 1..Len(closures') :
          /\ c > Len(closures) =>
                ValidAssignments(closures'[c].apiData, closures'[c].assigned0)
                   \subseteq {AssignmentOf(cl.profMap) :
                                 cl \in SingleTagReachable({closures'[c]}, {closures'[c]})}
          /\ (c > Len(closures) \/ closures'[c] # closures[c]) =>
                \A t \in AssignedTags(closures'[c].profMap) :
                   \A D \in Range(AllProfs(closures'[c].apiData, t))
                              \ Holders(closures'[c].profMap, t) :
                      MovableTo(closures'[c], t, D)]_vars

(***************************************************************************)
(* The destinations a card offers.                                         *)
(***************************************************************************)
\* the experts the index lists under one tag at least of the tags
Overlapping(apiData, tags) ==
    {p \in UNION {Range(apiData.all_profs_by_tag[t]) : t \in DOMAIN apiData.all_profs_by_tag} :
        \E t \in Range(tags) : Possesses(apiData, p, t)}

\* C24: the values a card's dropdown offers, which are the destinations a
\* dropdown move can be given, are exactly the experts other than the
\* card's member that the index lists under one at least of the tags the
\* member holds: never an expert without overlap, never the member itself.
C24_OfferedDestinations ==
    teamSection.kind = "cards" =>
       \A i \in 1..Len(teamSection.cards) :
          LET card == teamSection.cards[i]
          IN  card.options =
                 Overlapping(closures[Len(closures)].apiData, card.tags) \ {card.prof}

(***************************************************************************)
(* The member map and the order list.                                      *)
(***************************************************************************)
\* C25: in every state, the order of a session lists exactly the names that
\* have an entry in its member map, each once, and the map has one entry
\* per name.
C25_MapAndOrderConsistent ==
    \A c \in Closures :
        /\ Range(closures[c].profOrder) = Members(closures[c].profMap)
        /\ NoDuplicates(closures[c].profOrder)
        /\ Len(closures[c].profMap) = Cardinality(Members(closures[c].profMap))

\* a dropdown move has emptied its source and brought an expert into a
\* team of two members or more: the source is in neither, the expert in both
C25_Witness ==
    \E c \in Closures :
        /\ Moved(c)
        /\ last.op = "dropdown"
        /\ Len(closures[c].profOrder) >= 2
        /\ last.source \notin Range(closures[c].profOrder) \cup Members(closures[c].profMap)
        /\ last.dest \in Range(closures[c].profOrder) \cap Members(closures[c].profMap)
        /\ IndexOf(closures[c].profOrder, last.dest) >= 1

(***************************************************************************)
(* What a move leaves alone.                                               *)
(***************************************************************************)
\* the names of an order other than the two given, in their order
Others(order, S, D) == SelectSeq(order, LAMBDA n : n \notin {S, D})

\* C26: a move changes its source and its destination only: every other
\* member holds after the move the tags it held before, in the same order,
\* no other member enters or leaves, and the other members stand in the
\* same order relative to each other.
C26_MoveFrame ==
    [][DoneStep =>
          LET c == last'.cl
              S == last'.source
              D == last'.dest
              pm == closures[c].profMap
              pmAfter == closures'[c].profMap
          IN  /\ Members(pmAfter) \ {S, D} = Members(pm) \ {S, D}
              /\ \A n \in Members(pm) \ {S, D} : TagsOrNone(pmAfter, n) = TagsOf(pm, n)
              /\ Others(closures'[c].profOrder, S, D) = Others(closures[c].profOrder, S, D)
              /\ \A d \in 1..Len(closures) : d # c => closures'[d] = closures[d]]_vars

\* a swap icon has moved the only tag of a member to an expert new to the
\* team, next to a member that holds a tag and is neither of the two
C26_Witness ==
    \E c \in Closures :
        /\ Moved(c)
        /\ last.op = "icon"
        /\ ~HasProf(closures[c].profMap, last.source)
        /\ TagsOrNone(closures[c].profMap, last.dest) = <<last.tag>>
        /\ \E n \in Members(closures[c].profMap) \ {last.source, last.dest} :
              /\ TagsOf(closures[c].profMap, n) # <<>>
              /\ IndexOf(closures[c].profOrder, n) < IndexOf(closures[c].profOrder, last.dest)

(***************************************************************************)
(* A tag moved and moved back.                                             *)
(***************************************************************************)
\* the sessions left by the requests the page offers on a session and that
\* run to their end: a click on a swap icon of its table, or an option of
\* the dropdown of one of its cards
AfterRequest(cl) ==
    LET icons == {SwapIconHandler(cl, icon.dataProfName, icon.dataTag) :
                     icon \in TagTableIcons(cl.apiData)}
        cards == {TeamCard(cl, cl.profOrder[i]) :
                     i \in {j \in 1..Len(cl.profOrder) : HasProf(cl.profMap, cl.profOrder[j])}}
        options == UNION {{DropdownHandler(cl, card.dataCurrentProf, card.dataTags, value) :
                              value \in card.options} : card \in cards}
    IN  {Applied(cl, r) : r \in {q \in icons \cup options : q.outcome = "done"}}

\* between two sessions the tag went from S to D, and nothing else moved
MovedExactly(before, after, t, S, D) ==
    /\ S # D
    /\ Holders(before.profMap, t) = {S}
    /\ Holders(after.profMap, t) = {D}
    /\ \A u \in AssignedTags(before.profMap) \ {t} :
          Holders(after.profMap, u) = Holders(before.profMap, u)

\* the sessions left by the requests to move the tag from D to S that the
\* page offers on a session and that run to their end: the swap icon of S
\* under the tag, and the option S of the dropdown of D's card
AfterRequestBack(cl, t, D, S) ==
    LET icons == {SwapIconHandler(cl, icon.dataProfName, icon.dataTag) :
                     icon \in {i \in TagTableIcons(cl.apiData) :
                                  i.dataTag = t /\ i.dataProfName = S}}
        card == TeamCard(cl, D)
        options == IF HasProf(cl.profMap, D) /\ D \in Range(cl.profOrder)
                      /\ S \in card.options
                   THEN {DropdownHandler(cl, card.dataCurrentProf, card.dataTags, S)}
                   ELSE {}
    IN  {Applied(cl, r) : r \in {q \in icons \cup options : q.outcome = "done"}}

\* the round trips of a tag on a session: the tag, the source, the
\* destination and the session after the move back
RoundTrips(cl) ==
    UNION {LET changed == {t \in AssignedTags(cl.profMap) :
                              Holders(once.profMap, t) # Holders(cl.profMap, t)}
               t == CHOOSE u \in changed : TRUE
               S == CHOOSE n \in Holders(cl.profMap, t) : TRUE
               D == CHOOSE n \in Holders(once.profMap, t) : TRUE
           IN  IF Cardinality(changed) = 1 /\ MovedExactly(cl, once, t, S, D)
               THEN {[tag |-> t, S |-> S, D |-> D, back |-> back] :
                        back \in {b \in AfterRequestBack(once, t, D, S) :
                                    MovedExactly(once, b, t, D, S)}}
               ELSE {} :
           once \in AfterRequest(cl)}

\* every member of either session holds the same set of tags in both, a
\* name that is no member holding none
SameTagSets(cl1, cl2) ==
    \A n \in Members(cl1.profMap) \cup Members(cl2.profMap) :
        Range(TagsOrNone(cl1.profMap, n)) = Range(TagsOrNone(cl2.profMap, n))

\* the sessions built or changed by a step
Touched(c) == c > Len(closures) \/ closures'[c] # closures[c]

\* C27: a tag moved from S to D and moved back from D to S
\* leaves every member's set of tags and the order of the team as they were
\* before the first move, whether S held the tag alone or with others.
C27_RoundTripRestores ==
    [][\A c \in 1..Len(closures') :
          Touched(c) =>
             \A rt \in RoundTrips(closures'[c]) :
                /\ SameTagSets(closures'[c], rt.back)
                /\ rt.back.profOrder = closures'[c].profOrder]_vars

\* C27, amended: the round trip restores every member's set of tags; it
\* restores the order when S held other tags or D was new to the team; when
\* S held the tag alone and D was a member already, S comes back right
\* after D, or at the place of D when the move back leaves D without tags,
\* and the other members keep their order.
C27_RoundTripAmended ==
    [][\A c \in 1..Len(closures') :
          Touched(c) =>
             \A rt \in RoundTrips(closures'[c]) :
                LET cl == closures'[c]
                    order == rt.back.profOrder
                    others == Without(cl.profOrder, rt.S)
                IN  /\ SameTagSets(cl, rt.back)
                    /\ IF Range(TagsOf(cl.profMap, rt.S)) # {rt.tag} \/ ~HasProf(cl.profMap, rt.D)
                       THEN order = cl.profOrder
                       ELSE /\ Range(others) \ Range(order) \subseteq {rt.D}
                            /\ Without(order, rt.S) =
                                  SelectSeq(others, LAMBDA n : n \in Range(order))
                            /\ IF rt.D \in Range(order)
                               THEN IndexOf(order, rt.S) = IndexOf(order, rt.D) + 1
                               ELSE IndexOf(order, rt.S) = IndexOf(others, rt.D)]_vars

\* after a move, a session offers a round trip of a tag that its source
\* holds alone, to a member standing after the source: moved there and
\* back, the tag is with the source again and the source stands after that
\* member
C27_Witness ==
    \E c \in Closures :
        /\ Moved(c)
        /\ \E rt \in RoundTrips(closures[c]) :
              /\ TagsOf(closures[c].profMap, rt.S) = <<rt.tag>>
              /\ HasProf(closures[c].profMap, rt.D)
              /\ IndexOf(closures[c].profOrder, rt.S) < IndexOf(closures[c].profOrder, rt.D)
              /\ TagsOf(rt.back.profMap, rt.S) = <<rt.tag>>
              /\ IndexOf(rt.back.profOrder, rt.S) = IndexOf(rt.back.profOrder, rt.D) + 1

(***************************************************************************)
(* Two analyses in flight.                                                 *)
(***************************************************************************)
\* the step in which the later of the responses of two analyses arrives,
\* both being rendered
BothArrived ==
    /\ issued = 2
    /\ inflight # {}
    /\ inflight' = {}
    /\ Len(closures') = 2

\* C28: when two analyses are started one after the other and both
\* responses have arrived, in whichever order, the response stored and the
\* team shown are those of the analysis started last.
C28_LastStartedWins ==
    [][BothArrived =>
          LET started2 == IF inflight = {2} THEN 2 ELSE 1
          IN  /\ currentApiData'.request = 2
              /\ teamSection' = RenderTeamCards(closures'[started2])]_vars

(***************************************************************************)
(* Clear.                                                                  *)
(***************************************************************************)
\* the page as Clear leaves it: nothing stored, the placeholder in the team
\* section
Cleared ==
    currentApiData = NoApiData /\ currentResults = <<>> /\ teamSection = Placeholder

\* C29: after Clear nothing is stored and no team is shown until the user
\* starts a new analysis: a step that starts no analysis leaves a cleared
\* page cleared, also when it is the arrival of the response of an analysis
\* started before the Clear; and Clear leaves the page cleared.
C29_ClearedUntilNewAnalysis ==
    [][/\ (Cleared /\ issued' = issued) => Cleared'
       /\ (issued' = issued /\ inflight' = inflight /\ teamSection' = Placeholder
              /\ teamSection # Placeholder) => Cleared']_vars

(***************************************************************************)
(* The individual view across analyses.                                    *)
(***************************************************************************)
\* C30: whenever the individual tab is selected and its section holds a
\* ranked list, the list is the individual ranking of the response stored
\* last, the most recent successful one: an analysis completed while the
\* tab is selected does not leave the ranking of the query before it.
C30_IndividualViewCurrent ==
    (currentMode = "individual" /\ individualSection.kind = "list") =>
       /\ currentApiData.individual.has
       /\ individualSection = RenderIndividualResults(currentApiData.individual.list)

====
